---- MODULE Spec2Model ----
(***************************************************************************)
(* A model of backuply: target validation (ShellBackupJob.                 *)
(* validate_backup_target), the rotation around the external command       *)
(* (ShellBackupJob.backup), the Google Drive upload pipeline               *)
(* (GoogleDriveBackupJob), and create_backup_job with the constructors     *)
(* and the backup_command of the shell jobs.                               *)
(*                                                                         *)
(* Strings of the program are sequences of one-character strings, so that  *)
(* rstrip, os.path.split, re.search and str.replace are computed the way   *)
(* Python computes them.                                                   *)
(***************************************************************************)
EXTENDS Integers, Sequences, FiniteSets, TLC

VARIABLES
    \* --- the filesystem and the mount table seen by validate_backup_target
    fs,             \* node -> "none" | "file" | "dir"
    mounted,        \* the directories that are active mount points (besides /)
    fstab,          \* the lines of /etc/fstab
    \* --- one call of validate_backup_target, with its recursion
    backup_target,  \* the backup_target argument (ShellBackupJob: self.backup_target)
    file_required,  \* the file_required argument
    cur_dir,        \* the cur_dir argument of the current frame ("None" on entry)
    depth,          \* number of recursive frames below the first call
    vpc,            \* position in the current frame
    vresult,        \* what the first call returned or raised
    visited,        \* the values of cur_dir searched in /etc/fstab, in order
    checked,        \* the values of cur_dir handed to os.path.ismount, in order
    \* --- one call of ShellBackupJob.backup() and the files it touches
    disk,           \* file name -> what the file holds, for the files that exist
    disk0,          \* disk when backup() was called
    backup_type,    \* "rsync" | "tar"
    overwrite,      \* getattr(self, 'overwrite', False)
    now,            \* datetime.datetime.now(), <<Y, m, d, H, M, S>>
    old_backup,     \* the name the old backup was moved to, or None
    job_retval,     \* what subprocess.check_call returned
    exit_code,      \* the exit code of the external command, once it has ended
    invoked,        \* how many times the external command was started
    bpc,            \* position in backup()
    bresult,        \* what backup() returned or raised
    remove_errno,   \* how os.remove(old_backup) ended: -1 not called, 0, or the errno
    mpc,            \* position of main() around the run
    exit_status,    \* the exit status of the process, -1 while it runs
    \* --- GoogleDriveBackupJob: the producer backup() and the worker threads
    num_workers,    \* self.num_workers
    update,         \* self.update: skip files that are up to date remotely
    tree,           \* the entries self.source.glob('**/*') has yielded so far
    queue,          \* self.queue: entry numbers, NoJob for the sentinel None
    unfinished,     \* self.queue.unfinished_tasks
    ppc,            \* position of backup()
    pidx,           \* loop counter of the sentinel loop and of the join loop
    wpc,            \* worker -> position in backup_worker
    wjob,           \* worker -> the job it took
    tries,          \* worker -> tries of the running upload_file
    outcome,        \* entry number -> what became of its upload
    remote_dir0,    \* the remote folder of the files existed before the run
    created,        \* number of remote folders the run has created
    gets,           \* entry number -> how many times queue.get() handed it out
    objects,        \* entry number -> remote objects created for it
    sentinels,      \* number of sentinels put on the queue
    wsent,          \* worker -> number of sentinels it took
    \* --- GoogleDrivePlugin: the remote listings and calls of upload_file
    pagesize,       \* number of entries Drive puts on one page of a listing
    lentries,       \* the entries of a listing, in the order Drive lists them
    lname,          \* the name looked for in the listing
    lmtime,         \* the modification time of the local file
    lpc,            \* position of the call on the listing
    lres,           \* what the call on the listing gave
    rfiles,         \* the remote copies of the file under its parent, newest first
    rfiles0,        \* rfiles before the first call of upload_file
    resumable,      \* the local file is not empty (line 420)
    dupdate,        \* self.update of the plugin
    dpc,            \* position in upload_file
    dtries,         \* the tries argument of the current frame of upload_file
    attempts,       \* requests issued by the current call of upload_file
    backoffs,       \* retries made by the backoff decorator in the current call
    only404,        \* every response of the current call so far was a 404
    dstatus,        \* HTTP status of the last response
    dfollow,        \* what followed the last response
    consulted,      \* the current call has listed the remote copies
    dresults,       \* how the calls of upload_file ended, in order
    \* --- the arguments a job is constructed with, and its construction
    source,         \* the source argument
    exclude_file,   \* the exclude_file argument, or None
    verbose,        \* the verbose argument
    dry_run,        \* the dry_run argument
    incremental,    \* the incremental argument (rsync)
    extra_args,     \* rsync_extra_args / tar_extra_args: None or a list
    compress,       \* kwargs['compress'] (tar)
    compression_type, \* kwargs['compression_type'], or Absent (tar)
    extra_excludes, \* kwargs['extra_excludes'] (tar)
    command,        \* the backup_command last evaluated, <<>> before
    kpc,            \* position in create_backup_job and the constructor
    kresult,        \* what the constructor raised
    base_dir0,      \* the base folder existed on Drive before the run
    folders,        \* remote folders created by the constructor
    threads,        \* worker threads started by the constructor
    \* --- GoogleDrivePlugin.upload_chunk_size
    file_size,      \* filename.stat().st_size
    default_chunk_size, \* self.default_chunk_size
    cpc,            \* position of upload_chunk_size: "idle", "ready", "done"
    chunk_size      \* the value upload_chunk_size returned

valVars == <<fs, mounted, fstab, file_required, cur_dir, depth,
             vpc, vresult, visited, checked>>

jobVars == <<disk, disk0, backup_type, overwrite, now, old_backup, job_retval,
             exit_code, invoked, bpc, bresult, remove_errno, mpc, exit_status>>

upVars == <<num_workers, update, tree, queue, unfinished, ppc, pidx, wpc, wjob,
            tries, outcome, remote_dir0, created, gets, objects, sentinels,
            wsent>>

drvVars == <<pagesize, lentries, lname, lmtime, lpc, lres, rfiles, rfiles0,
             resumable, dupdate, dpc, dtries, attempts, backoffs, only404,
             dstatus, dfollow, consulted, dresults>>

attrVars == <<source, exclude_file, verbose, dry_run, incremental, extra_args,
              compress, compression_type, extra_excludes>>

ctorVars == <<attrVars, command, kpc, kresult, base_dir0, folders, threads>>

chunkVars == <<file_size, default_chunk_size, cpc, chunk_size>>

vars == <<backup_target, valVars, jobVars, upVars, drvVars, ctorVars, chunkVars>>

-----------------------------------------------------------------------------
(* errno *)
ENOENT == 2
ENXIO == 6
\* An errno of os.remove that is not ENOENT.
EACCES == 13
EEXIST == 17
ENOTDIR == 20
EISDIR == 21

\* None, where a string is expected; no path equals it.
None == <<"None">>
\* None, where an exception is expected.
NoExc == [cls |-> "None"]
\* A message text, as a string value.
Msg(text) == <<text>>

\* A key that kwargs does not hold.
Absent == <<"Absent">>
\* kwargs.get(key, default)
KwGet(value, default) == IF value = Absent THEN default ELSE value

\* The values of rsync_extra_args and tar_extra_args: None, or a list of
\* arguments.
PyNone == [type |-> "NoneType", items |-> <<>>]
PyList(items) == [type |-> "list", items |-> items]

-----------------------------------------------------------------------------
(* Python strings *)

\* The characters paths are made of: "." also is the regex wildcard.
Char == {"/", "a", "."}

\* Longest backup_target drawn.
MaxPathLen == 4

Strings(n) == UNION {[1..k -> Char] : k \in 0..n}

\* str.rstrip('/')
RECURSIVE RStrip(_)
RStrip(s) ==
    IF s = <<>> THEN s
    ELSE IF s[Len(s)] = "/" THEN RStrip(SubSeq(s, 1, Len(s) - 1))
    ELSE s

\* str.endswith('/')
EndsWithSlash(s) == s # <<>> /\ s[Len(s)] = "/"

\* str.rfind('/') + 1: the length of the prefix that ends with the last slash
RFindSlash(s) ==
    LET idx == {i \in 1..Len(s) : s[i] = "/"}
    IN  IF idx = {} THEN 0 ELSE CHOOSE i \in idx : \A j \in idx : j <= i

\* posixpath.split: (head, tail), head stripped of trailing slashes unless
\* it consists of slashes only
PathSplit(p) ==
    LET i == RFindSlash(p)
        head == SubSeq(p, 1, i)
        tail == SubSeq(p, i + 1, Len(p))
    IN  IF head # <<>> /\ (\E k \in 1..Len(head) : head[k] # "/")
        THEN <<RStrip(head), tail>>
        ELSE <<head, tail>>

\* re.search(pattern, line) for a pattern over Char: "." matches any
\* character of the line (its newline excepted, which no line here holds),
\* every other character matches itself; the match may start anywhere.
ReSearch(pattern, line) ==
    \E i \in 0..(Len(line) - Len(pattern)) :
        \A j \in 1..Len(pattern) :
            pattern[j] = "." \/ pattern[j] = line[i + j]

-----------------------------------------------------------------------------
(* The filesystem: os.path.isdir, isfile, ismount *)

NameA == <<"a">>
Root == <<>>
\* The directory relative paths are resolved from.
Cwd == Root
\* The entries a filesystem may hold: /, /a and /a/a.
Nodes == {Root, <<NameA>>, <<NameA, NameA>>}

Parent(n) == IF n = Root THEN Root ELSE SubSeq(n, 1, Len(n) - 1)

\* The path components between slashes, empty ones dropped.
RECURSIVE Components(_)
Components(p) ==
    IF p = <<>> THEN <<>>
    ELSE LET i == RFindSlash(p)
             tail == SubSeq(p, i + 1, Len(p))
             rest == Components(RStrip(SubSeq(p, 1, i)))
         IN  IF tail = <<>> THEN rest ELSE Append(rest, tail)

\* The kernel's path walk: every component is looked up in a directory.
RECURSIVE WalkFrom(_, _, _)
WalkFrom(cur, comps, i) ==
    IF i > Len(comps) THEN {cur}
    ELSE IF fs[cur] # "dir" THEN {}
    ELSE LET c == comps[i]
             child == Append(cur, c)
         IN  IF c = <<".">> THEN WalkFrom(cur, comps, i + 1)
             ELSE IF c = <<".", ".">> THEN WalkFrom(Parent(cur), comps, i + 1)
             ELSE IF child \in Nodes /\ fs[child] # "none"
                  THEN WalkFrom(child, comps, i + 1)
                  ELSE {}

\* stat(p): the node p names, as a set of at most one node.
Resolve(p) ==
    IF p = <<>> THEN {}
    ELSE {n \in WalkFrom(IF p[1] = "/" THEN Root ELSE Cwd, Components(p), 1) :
             EndsWithSlash(p) => fs[n] = "dir"}

isdir(p) == \E n \in Resolve(p) : fs[n] = "dir"
isfile(p) == \E n \in Resolve(p) : fs[n] = "file"
exists(p) == Resolve(p) # {}
ismount(p) == \E n \in Resolve(p) : fs[n] = "dir" /\ (n = Root \/ n \in mounted)

\* The filesystems drawn: / is a directory, and an entry exists only in a
\* directory.
FsConfigs ==
    {f \in [Nodes -> {"none", "file", "dir"}] :
        /\ f[Root] = "dir"
        /\ \A n \in Nodes \ {Root} : f[n] # "none" => f[Parent(n)] = "dir"}

\* The lines /etc/fstab is drawn from: "b /a", "/a/a /b", "b /" and the
\* comment "#b", a line that names no path.
FstabLines ==
    { <<"b", " ", "/", "a">>,
      <<"/", "a", "/", "a", " ", "/", "b">>,
      <<"b", " ", "/">>,
      <<"#", "b">> }

-----------------------------------------------------------------------------
(* Exceptions *)

\* jobs.InvalidBackupTarget, the class the module ends up binding the name
\* to: __init__(self, message, backup_target=None, backup_type=None). Called
\* with more than three arguments it raises TypeError.
InvalidBackupTarget(args) ==
    IF Len(args) > 3 \/ Len(args) < 1
    THEN [cls |-> "TypeError"]
    ELSE [cls |-> "InvalidBackupTarget",
          args0 |-> args[1],
          backup_target |-> IF Len(args) >= 2 THEN args[2] ELSE None,
          backup_type |-> IF Len(args) >= 3 THEN args[3] ELSE None]

-----------------------------------------------------------------------------
(* ShellBackupJob.validate_backup_target *)

\* backup_dir of a frame: the directory of a target that is an existing file
backup_dir(target, required) ==
    IF required /\ ~isdir(target) /\ isfile(target)
    THEN PathSplit(target)[1]
    ELSE None

\* TypeCheck without the check that a file target is not a directory.
TypeCheck_NoIsDirCheck(target, required) ==
    IF ~required /\ isfile(target)
    THEN InvalidBackupTarget(<<ENOTDIR, Msg("backup_target must be a directory"), target>>)
    ELSE NoExc

\* The type checks a frame starts with: the exception raised, or NoExc.
TypeCheck(target, required) ==
    IF required /\ isdir(target)
    THEN InvalidBackupTarget(<<EISDIR, Msg("backup_target must be a file"), target>>)
    ELSE IF ~required /\ isfile(target)
    THEN InvalidBackupTarget(<<ENOTDIR, Msg("backup_target must be a directory"), target>>)
    ELSE NoExc

\* for line in f: if re.search(cur_dir, line): found = True
Found(cur) == \E line \in fstab : ReSearch(cur, line)

\* FinalCheck without the check that a directory target is a directory.
FinalCheck_NoDirCheck(target, required) ==
    IF backup_dir(target, required) # None
       /\ ~isdir(backup_dir(target, required))
    THEN InvalidBackupTarget(<<ENOTDIR, Msg("does not exist or is not a directory"), target>>)
    ELSE NoExc

\* The checks a frame ends with: the exception raised, or NoExc.
FinalCheck(target, required) ==
    IF ~isdir(target) /\ ~required
    THEN InvalidBackupTarget(<<ENOTDIR, Msg("is not a directory"), target>>)
    ELSE IF backup_dir(target, required) # None
            /\ ~isdir(backup_dir(target, required))
    THEN InvalidBackupTarget(<<ENOTDIR, Msg("does not exist or is not a directory"), target>>)
    ELSE NoExc

\* The value a frame returns: a directory gets its trailing slash.
ReturnValue(target) ==
    IF isdir(target) /\ ~EndsWithSlash(target) THEN Append(target, "/") ELSE target

\* An InvalidBackupTarget raised in a recursive frame is caught by the
\* except clause of the frame that called it, which goes on to its final
\* checks; raised in the first frame it reaches the caller.
Raise(exc) ==
    IF depth > 0
    THEN /\ depth' = depth - 1
         /\ vpc' = "final"
         /\ vresult' = vresult
    ELSE /\ depth' = depth
         /\ vpc' = "raised"
         /\ vresult' = [kind |-> "raise", exc |-> exc]

\* Lines 143-160: the type checks, then cur_dir.
ValidateEnter ==
    /\ vpc = "enter"
    /\ IF TypeCheck(backup_target, file_required) # NoExc
       THEN /\ Raise(TypeCheck(backup_target, file_required))
            /\ UNCHANGED cur_dir
       ELSE /\ cur_dir' = RStrip(IF cur_dir # None THEN cur_dir
                                 ELSE IF backup_dir(backup_target, file_required) = None
                                      THEN backup_target
                                      ELSE backup_dir(backup_target, file_required))
            /\ vpc' = "search"
            /\ UNCHANGED <<depth, vresult>>
    /\ UNCHANGED <<chunkVars, jobVars, upVars, drvVars, ctorVars, fs, mounted, fstab, backup_target, file_required, visited, checked>>

\* ValidateSearch without the test of line 175 that the last component of
\* the path is not empty.
ValidateSearch_NoTailCheck ==
    /\ vpc = "search"
    /\ visited' = Append(visited, cur_dir)
    /\ IF ~Found(cur_dir)
       THEN /\ UNCHANGED checked
            /\ IF TRUE
               THEN /\ cur_dir' = PathSplit(cur_dir)[1]
                    /\ depth' = depth + 1
                    /\ vpc' = "enter"
                    /\ UNCHANGED vresult
               ELSE /\ vpc' = "final"
                    /\ UNCHANGED <<cur_dir, depth, vresult>>
       ELSE /\ checked' = Append(checked, cur_dir)
            /\ UNCHANGED cur_dir
            /\ IF ~ismount(cur_dir)
               THEN Raise(InvalidBackupTarget(<<ENXIO, Msg("is not mounted."), backup_target>>))
               ELSE /\ vpc' = "final"
                    /\ UNCHANGED <<depth, vresult>>
    /\ UNCHANGED <<chunkVars, jobVars, upVars, drvVars, ctorVars, fs, mounted, fstab, backup_target, file_required>>

\* Lines 162-190: the search of /etc/fstab; no match chops the end of the
\* path off and recurses, a match checks the mount.
ValidateSearch ==
    /\ vpc = "search"
    /\ visited' = Append(visited, cur_dir)
    /\ IF ~Found(cur_dir)
       THEN /\ UNCHANGED checked
            /\ IF PathSplit(cur_dir)[2] # <<>>
               THEN /\ cur_dir' = PathSplit(cur_dir)[1]
                    /\ depth' = depth + 1
                    /\ vpc' = "enter"
                    /\ UNCHANGED vresult
               ELSE /\ vpc' = "final"
                    /\ UNCHANGED <<cur_dir, depth, vresult>>
       ELSE /\ checked' = Append(checked, cur_dir)
            /\ UNCHANGED cur_dir
            /\ IF ~ismount(cur_dir)
               THEN Raise(InvalidBackupTarget(<<ENXIO, Msg("is not mounted."), backup_target>>))
               ELSE /\ vpc' = "final"
                    /\ UNCHANGED <<depth, vresult>>
    /\ UNCHANGED <<chunkVars, jobVars, upVars, drvVars, ctorVars, fs, mounted, fstab, backup_target, file_required>>

\* Lines 192-207: the existence checks and the returned path.
ValidateFinal ==
    /\ vpc = "final"
    /\ IF FinalCheck(backup_target, file_required) # NoExc
       THEN Raise(FinalCheck(backup_target, file_required))
       ELSE /\ vpc' = "return"
            /\ vresult' = [kind |-> "return", value |-> ReturnValue(backup_target)]
            /\ UNCHANGED depth
    /\ UNCHANGED <<chunkVars, jobVars, upVars, drvVars, ctorVars, fs, mounted, fstab, backup_target, file_required, cur_dir,
                   visited, checked>>

\* Line 180: return ShellBackupJob.validate_backup_target(...) hands the
\* value of the recursive frame on.
ValidateReturn ==
    /\ vpc = "return"
    /\ IF depth > 0
       THEN /\ depth' = depth - 1
            /\ UNCHANGED vpc
       ELSE /\ vpc' = "returned"
            /\ UNCHANGED depth
    /\ UNCHANGED <<chunkVars, jobVars, upVars, drvVars, ctorVars, fs, mounted, fstab, backup_target, file_required, cur_dir,
                   vresult, visited, checked>>

\* The variables of backup() while no backup() is modelled.
JobRest ==
    /\ disk = <<>>
    /\ disk0 = <<>>
    /\ overwrite = FALSE
    /\ now = <<>>
    /\ old_backup = None
    /\ job_retval = -1
    /\ exit_code = -1
    /\ invoked = 0
    /\ bpc = "idle"
    /\ bresult = [kind |-> "none"]
    /\ remove_errno = -1
    /\ mpc = "idle"
    /\ exit_status = -1

JobIdle == backup_type = "none" /\ JobRest

\* The arguments of a job while none matter: the defaults of the
\* constructors.
AttrDefault ==
    /\ source = <<"/", "a">>
    /\ exclude_file = None
    /\ verbose = FALSE
    /\ dry_run = FALSE
    /\ incremental = FALSE
    /\ extra_args = PyNone
    /\ compress = TRUE
    /\ compression_type = Absent
    /\ extra_excludes = <<>>

\* No job is being constructed.
CtorIdle ==
    /\ AttrDefault
    /\ command = <<>>
    /\ kpc = "idle"
    /\ kresult = NoExc
    /\ base_dir0 = FALSE
    /\ folders = 0
    /\ threads = 0

\* The variables of the upload pipeline while none is modelled.
UpRest ==
    /\ update = FALSE
    /\ tree = <<>>
    /\ queue = <<>>
    /\ unfinished = 0
    /\ ppc = "idle"
    /\ pidx = 0
    /\ wpc = <<>>
    /\ wjob = <<>>
    /\ tries = <<>>
    /\ outcome = <<>>
    /\ remote_dir0 = FALSE
    /\ created = 0
    /\ gets = <<>>
    /\ objects = <<>>
    /\ sentinels = 0
    /\ wsent = <<>>

UpIdle == num_workers = 0 /\ UpRest

\* No listing is read and upload_file is not called.
DrvIdle ==
    /\ pagesize = 1
    /\ lentries = <<>>
    /\ lname = ""
    /\ lmtime = 0
    /\ lpc = "idle"
    /\ lres = [fn |-> "none"]
    /\ rfiles = <<>>
    /\ rfiles0 = <<>>
    /\ resumable = FALSE
    /\ dupdate = FALSE
    /\ dpc = "off"
    /\ dtries = 0
    /\ attempts = 0
    /\ backoffs = 0
    /\ only404 = TRUE
    /\ dstatus = 0
    /\ dfollow = "none"
    /\ consulted = FALSE
    /\ dresults = <<>>

\* upload_chunk_size is not called.
ChunkIdle ==
    /\ file_size = 0
    /\ default_chunk_size = 0
    /\ cpc = "idle"
    /\ chunk_size = 0

ValInit ==
    /\ ChunkIdle
    /\ JobIdle
    /\ UpIdle
    /\ DrvIdle
    /\ CtorIdle
    /\ fs \in FsConfigs
    /\ mounted \in SUBSET {n \in Nodes \ {Root} : fs[n] = "dir"}
    /\ fstab \in SUBSET FstabLines
    /\ backup_target \in Strings(MaxPathLen)
    /\ file_required \in BOOLEAN
    /\ cur_dir = None
    /\ depth = 0
    /\ vpc = "enter"
    /\ vresult = [kind |-> "none"]
    /\ visited = <<>>
    /\ checked = <<>>

ValNext == ValidateEnter \/ ValidateSearch \/ ValidateFinal \/ ValidateReturn

SpecValidate == ValInit /\ [][ValNext]_vars

-----------------------------------------------------------------------------
(* Properties of validate_backup_target *)

ValDone == vpc \in {"returned", "raised"}

RaisedInvalid(code) ==
    /\ vresult.kind = "raise"
    /\ vresult.exc.cls = "InvalidBackupTarget"
    /\ vresult.exc.args0 = code

\* C1: when the upward walk reaches a directory that matches a line of the
\* mount table and is not an active mount point, validation fails with
\* ENXIO, on the starting path as on any ancestor.
C1_UnmountedMatchRaisesENXIO ==
    (ValDone /\ \E i \in 1..Len(checked) :
                    isdir(checked[i]) /\ ~ismount(checked[i]))
        => RaisedInvalid(ENXIO)

\* C2 as stated: a validated path exists and has the required type, a
\* directory without file_required and a regular file with it.
C2_ReturnedExistsWithType ==
    vpc = "returned" =>
        IF file_required THEN isfile(backup_target) ELSE isdir(backup_target)

\* C2, amended: a validated path is an existing directory without
\* file_required, and is not a directory with it (a regular file, or a
\* path that does not exist yet).
C2_ReturnedTypeAmended ==
    vpc = "returned" =>
        IF file_required THEN ~isdir(backup_target) ELSE isdir(backup_target)

C2_Witness ==
    /\ vpc = "returned"
    /\ file_required
    /\ ~exists(backup_target)
    /\ vresult.value = backup_target

\* C3: with file_required, validation fails with ENOTDIR whenever the
\* directory that contains the target is missing or is not a directory.
C3_MissingDirRaisesENOTDIR ==
    (/\ ValDone
     /\ file_required
     /\ PathSplit(backup_target)[2] # <<>>
     /\ PathSplit(backup_target)[1] # <<>>
     /\ ~isdir(PathSplit(backup_target)[1]))
        => RaisedInvalid(ENOTDIR)

-----------------------------------------------------------------------------
(* ShellBackupJob.backup: the files *)

TarGz == <<".", "t", "a", "r", ".", "g", "z">>

\* str.replace(old, new): every occurrence, left to right, not overlapping
RECURSIVE StrReplace(_, _, _)
StrReplace(s, old, new) ==
    IF Len(s) < Len(old) THEN s
    ELSE IF SubSeq(s, 1, Len(old)) = old
    THEN new \o StrReplace(SubSeq(s, Len(old) + 1, Len(s)), old, new)
    ELSE <<s[1]>> \o StrReplace(Tail(s), old, new)

\* posixpath.join(a, b)
PathJoin(a, b) ==
    IF b # <<>> /\ b[1] = "/" THEN b
    ELSE IF a = <<>> \/ EndsWithSlash(a) THEN a \o b
    ELSE a \o <<"/">> \o b

Digits == <<"0", "1", "2", "3", "4", "5", "6", "7", "8", "9">>
Pad2(n) == <<Digits[((n \div 10) % 10) + 1], Digits[(n % 10) + 1]>>
Pad4(n) == Pad2(n \div 100) \o Pad2(n % 100)

\* '.{:%Y.%m.%d.%H.%M.%S}.tar.gz'.format(now)
TimestampSuffix(t) ==
    <<".">> \o Pad4(t[1]) \o <<".">> \o Pad2(t[2]) \o <<".">> \o Pad2(t[3])
            \o <<".">> \o Pad2(t[4]) \o <<".">> \o Pad2(t[5]) \o <<".">> \o Pad2(t[6])
            \o TarGz

\* Lines 77-81: the name the old backup is moved to.
RotatedName(target, t) ==
    LET parts == PathSplit(target)
    IN  PathJoin(parts[1], StrReplace(parts[2], TarGz, TimestampSuffix(t)))

\* The times backup() is called at.
Nows == { <<2026, 11, 3, 0, 57, 48>>, <<1999, 12, 31, 23, 59, 59>> }

\* The targets of a tar job: /a.tar.gz, a.tar.gz, /a.tar, /a.tar.gz/a
TarTargets ==
    { <<"/", "a">> \o TarGz,
      <<"a">> \o TarGz,
      <<"/", "a", ".", "t", "a", "r">>,
      <<"/", "a">> \o TarGz \o <<"/", "a">> }

\* The target of an rsync job, a validated directory: /a/
RsyncTarget == <<"/", "a", "/">>

\* os.path.isfile on the files backup() touches
DiskIsFile(d, name) == name \in DOMAIN d /\ d[name] # "dir"

\* os.rename(src, dst): dst is replaced; renaming a file to itself does nothing
DiskRename(d, src, dst) ==
    IF src = dst THEN d
    ELSE [n \in (DOMAIN d \ {src}) \cup {dst} |-> IF n = dst THEN d[src] ELSE d[n]]

\* os.remove(name), when it succeeds
DiskRemove(d, name) == [n \in DOMAIN d \ {name} |-> d[n]]

\* The file name holds content afterwards.
DiskWrite(d, name, content) ==
    [n \in DOMAIN d \cup {name} |-> IF n = name THEN content ELSE d[n]]

NoFiles == [n \in {} |-> "none"]

\* The files when backup() is called: a directory target for rsync; for tar
\* the target holds the old backup or does not exist, and another file may
\* sit at the name the old backup will be moved to.
InitialDisks(type, target, t) ==
    IF type = "rsync" THEN {DiskWrite(NoFiles, target, "dir")}
    ELSE LET bases == {NoFiles, DiskWrite(NoFiles, target, "old")}
         IN  bases \cup
             {DiskWrite(b, RotatedName(target, t), "stale") :
                 b \in {x \in bases : RotatedName(target, t) # target}}

-----------------------------------------------------------------------------
(* backup_command *)

\* The extra arguments drawn.
ExtraArgs == {PyNone, PyList(<<>>), PyList(<<Msg("-z")>>),
              PyList(<<Msg("-z"), Msg("--one-file-system")>>)}

\* args += extra in a try block: TypeError, raised for None, is passed over.
Extend(args, extra) == IF extra.type = "list" THEN args \o extra.items ELSE args

\* 'prefix%s' % value
Fmt(prefix, value) == <<prefix>> \o value

\* Lines 116-118: self.source is the source argument with a trailing slash.
self_source == IF EndsWithSlash(source) THEN source ELSE Append(source, "/")

\* Line 322: self.compression_type
self_compression_type == KwGet(compression_type, Msg("gzip"))

\* RsyncBackupJob.backup_command without the test of dry_run.
RsyncCommand_NoDryRun ==
    Extend(<<Msg("rsync"), Msg("-a"), Msg("-A"), Msg("-X")>>
           \o (IF verbose THEN <<Msg("-v"), Msg("-P")>> ELSE <<Msg("-q")>>)
           \o (IF exclude_file # None
               THEN <<Fmt("--exclude-from=", exclude_file)>> ELSE <<>>)
           \o (IF incremental THEN <<Msg("-u")>> ELSE <<Msg("--delete-after")>>),
           extra_args)
        \o <<self_source, backup_target>>

\* RsyncBackupJob.backup_command
RsyncCommand ==
    Extend(<<Msg("rsync"), Msg("-a"), Msg("-A"), Msg("-X")>>
           \o (IF verbose THEN <<Msg("-v"), Msg("-P")>> ELSE <<Msg("-q")>>)
           \o (IF dry_run THEN <<Msg("-n")>> ELSE <<>>)
           \o (IF exclude_file # None
               THEN <<Fmt("--exclude-from=", exclude_file)>> ELSE <<>>)
           \o (IF incremental THEN <<Msg("-u")>> ELSE <<Msg("--delete-after")>>),
           extra_args)
        \o <<self_source, backup_target>>

\* TarBackupJob.backup_command with the extra arguments appended after the
\* output file.
TarCommand_ExtraAfterFile ==
    Extend(<<Msg("tar"), Msg("--create"), Msg("--acls"), Msg("--selinux"),
             Msg("--xattrs"), Fmt("--exclude=", backup_target)>>
           \o (IF verbose THEN <<Msg("--verbose")>> ELSE <<>>)
           \o [i \in 1..Len(extra_excludes) |-> Fmt("--exclude=", extra_excludes[i])]
           \o (IF exclude_file # None
               THEN <<Fmt("--exclude-from=", exclude_file)>> ELSE <<>>)
           \o (IF compress THEN <<Fmt("--", self_compression_type)>>
               ELSE <<Msg("--verify")>>)
           \o <<Fmt("--file=", backup_target)>>,
           extra_args)
        \o <<self_source>>

\* TarBackupJob.backup_command
TarCommand ==
    Extend(<<Msg("tar"), Msg("--create"), Msg("--acls"), Msg("--selinux"),
             Msg("--xattrs"), Fmt("--exclude=", backup_target)>>
           \o (IF verbose THEN <<Msg("--verbose")>> ELSE <<>>)
           \o [i \in 1..Len(extra_excludes) |-> Fmt("--exclude=", extra_excludes[i])]
           \o (IF exclude_file # None
               THEN <<Fmt("--exclude-from=", exclude_file)>> ELSE <<>>)
           \o (IF compress THEN <<Fmt("--", self_compression_type)>>
               ELSE <<Msg("--verify")>>),
           extra_args)
        \o <<Fmt("--file=", backup_target), self_source>>

\* self.backup_command of the job
backup_command == IF backup_type = "rsync" THEN RsyncCommand ELSE TarCommand

\* rsync -n performs a trial run that makes no changes; tar is given no
\* such option.
Simulated(cmd) ==
    /\ cmd # <<>>
    /\ cmd[1] = Msg("rsync")
    /\ \E i \in 1..Len(cmd) : cmd[i] = Msg("-n")

-----------------------------------------------------------------------------
(* ShellBackupJob.backup *)

\* The exit codes of the external command.
ExitCodes == {0, 1, 2}

\* subprocess.check_call: the exit code when it is zero, CalledProcessError
\* otherwise.
CheckCall(rc) ==
    IF rc # 0
    THEN [kind |-> "raise", exc |-> [cls |-> "CalledProcessError", returncode |-> rc]]
    ELSE [kind |-> "return", value |-> rc]

\* ShouldCleanup with the test of old_backup inverted.
ShouldCleanup_Inverted(retval, old) == retval \in {0, 2} /\ old = None

\* Swallowed, for every error.
Swallowed_Always(err) == TRUE

\* Lines 89-91: except IOError as e: if e.errno != errno.ENOENT: raise e
Swallowed(err) == err = ENOENT

\* Line 86: if job_retval in (0, 2) and old_backup is not None
ShouldCleanup(retval, old) == retval \in {0, 2} /\ old # None

\* Lines 63-82: an existing target is refused, or moved out of the way.
BackupStart ==
    /\ bpc = "start"
    /\ IF DiskIsFile(disk, backup_target)
       THEN IF ~overwrite
            THEN /\ bpc' = "raised"
                 /\ bresult' = [kind |-> "raise",
                                exc |-> InvalidBackupTarget(
                                    <<EEXIST, Msg("already exists"),
                                      backup_target, backup_type>>)]
                 /\ UNCHANGED <<disk, old_backup>>
            ELSE /\ old_backup' = RotatedName(backup_target, now)
                 /\ disk' = DiskRename(disk, backup_target,
                                       RotatedName(backup_target, now))
                 /\ bpc' = "run"
                 /\ UNCHANGED bresult
       ELSE /\ bpc' = "run"
            /\ UNCHANGED <<disk, old_backup, bresult>>
    /\ UNCHANGED <<chunkVars, backup_target, valVars, upVars, drvVars, ctorVars, disk0, backup_type,
                   overwrite, now, job_retval, exit_code, invoked, remove_errno,
                   mpc, exit_status>>

\* Line 84: the external command starts; tar may already have opened its
\* archive, the target, for writing.
CommandStart ==
    /\ bpc = "run"
    /\ bpc' = "running"
    /\ invoked' = invoked + 1
    /\ command' = backup_command
    /\ \E opened \in BOOLEAN :
          disk' = IF opened /\ backup_type = "tar"
                  THEN DiskWrite(disk, backup_target, "partial")
                  ELSE disk
    /\ UNCHANGED <<chunkVars, backup_target, valVars, upVars, drvVars, attrVars, kpc, kresult,
                   base_dir0, folders, threads, disk0, backup_type, overwrite, now,
                   old_backup, job_retval, exit_code, bresult, remove_errno,
                   mpc, exit_status>>

\* Line 84: the external command ends; check_call returns or raises.
CommandExit ==
    /\ bpc = "running"
    /\ \E rc \in ExitCodes :
          /\ exit_code' = rc
          /\ IF CheckCall(rc).kind = "return"
             THEN /\ job_retval' = CheckCall(rc).value
                  /\ disk' = IF rc = 0 /\ backup_type = "tar"
                             THEN DiskWrite(disk, backup_target, "new")
                             ELSE IF rc = 0 /\ ~Simulated(command)
                             THEN DiskWrite(disk, backup_target, "synced")
                             ELSE disk
                  /\ bpc' = "cleanup"
                  /\ UNCHANGED bresult
             ELSE /\ bresult' = CheckCall(rc)
                  /\ bpc' = "raised"
                  /\ UNCHANGED <<job_retval, disk>>
    /\ UNCHANGED <<chunkVars, backup_target, valVars, upVars, drvVars, ctorVars, disk0, backup_type,
                   overwrite, now, old_backup, invoked, remove_errno,
                   mpc, exit_status>>

\* Lines 86-95: the old backup is removed after a success. os.remove
\* succeeds, or fails because the file is gone already (swallowed), or fails
\* otherwise (raised).
Cleanup ==
    /\ bpc = "cleanup"
    /\ IF ShouldCleanup(job_retval, old_backup)
       THEN \E err \in {0, ENOENT, EACCES} :
               /\ err = 0 => old_backup \in DOMAIN disk
               /\ remove_errno' = err
               /\ disk' = IF err = EACCES THEN disk ELSE DiskRemove(disk, old_backup)
               /\ IF err = 0 \/ Swallowed(err)
                  THEN /\ bpc' = "returned"
                       /\ bresult' = [kind |-> "return", value |-> job_retval]
                  ELSE /\ bpc' = "raised"
                       /\ bresult' = [kind |-> "raise",
                                      exc |-> [cls |-> "OSError", errno |-> err]]
       ELSE /\ bpc' = "returned"
            /\ bresult' = [kind |-> "return", value |-> job_retval]
            /\ UNCHANGED <<disk, remove_errno>>
    /\ UNCHANGED <<chunkVars, backup_target, valVars, upVars, drvVars, ctorVars, disk0, backup_type,
                   overwrite, now, old_backup, job_retval, exit_code, invoked,
                   mpc, exit_status>>

\* Line 84: the user interrupts the run while check_call waits for the
\* external command; KeyboardInterrupt is raised in backup().
Interrupt ==
    /\ bpc = "running"
    /\ bpc' = "raised"
    /\ bresult' = [kind |-> "raise", exc |-> [cls |-> "KeyboardInterrupt"]]
    /\ UNCHANGED <<chunkVars, backup_target, valVars, upVars, drvVars, ctorVars, disk, disk0,
                   backup_type, overwrite, now, old_backup, job_retval, exit_code,
                   invoked, remove_errno, mpc, exit_status>>

\* main(): return backup(...); except IOError: return e.errno; except
\* CalledProcessError: return e.returncode; except KeyboardInterrupt:
\* return 1. Any other exception leaves main() and the interpreter exits
\* with status 1.
MainExitCode(res) ==
    IF res.kind = "return" THEN res.value
    ELSE IF res.exc.cls \in {"IOError", "OSError"} THEN res.exc.errno
    ELSE IF res.exc.cls = "CalledProcessError" THEN res.exc.returncode
    ELSE IF res.exc.cls = "KeyboardInterrupt" THEN 1
    ELSE 1

\* exit(main())
MainExit ==
    /\ mpc = "running"
    /\ bpc \in {"returned", "raised"}
    /\ mpc' = "exited"
    /\ exit_status' = MainExitCode(bresult)
    /\ UNCHANGED <<chunkVars, backup_target, valVars, upVars, drvVars, ctorVars, disk, disk0,
                   backup_type, overwrite, now, old_backup, job_retval, exit_code,
                   invoked, bpc, bresult, remove_errno>>

\* The variables of validate_backup_target while no call is modelled.
ValRest ==
    /\ file_required = FALSE
    /\ cur_dir = None
    /\ depth = 0
    /\ vpc = "idle"
    /\ vresult = [kind |-> "none"]
    /\ visited = <<>>
    /\ checked = <<>>

ValIdle ==
    /\ fs = [n \in Nodes |-> IF n = Root THEN "dir" ELSE "none"]
    /\ mounted = {}
    /\ fstab = {}
    /\ ValRest

JobInit ==
    /\ ChunkIdle
    /\ ValIdle
    /\ UpIdle
    /\ DrvIdle
    /\ backup_type \in {"rsync", "tar"}
    /\ backup_target \in (IF backup_type = "rsync" THEN {RsyncTarget} ELSE TarTargets)
    /\ overwrite \in (IF backup_type = "tar" THEN BOOLEAN ELSE {FALSE})
    /\ now \in Nows
    /\ disk \in InitialDisks(backup_type, backup_target, now)
    /\ disk0 = disk
    /\ old_backup = None
    /\ job_retval = -1
    /\ exit_code = -1
    /\ invoked = 0
    /\ bpc = "start"
    /\ bresult = [kind |-> "none"]
    /\ remove_errno = -1
    /\ mpc = "running"
    /\ exit_status = -1
    /\ source = <<"/", "a">>
    /\ exclude_file = None
    /\ verbose = FALSE
    /\ dry_run \in BOOLEAN
    /\ incremental = FALSE
    /\ extra_args = PyNone
    /\ compress = TRUE
    /\ compression_type = Absent
    /\ extra_excludes = <<>>
    /\ command = <<>>
    /\ kpc = "constructed"
    /\ kresult = NoExc
    /\ base_dir0 = FALSE
    /\ folders = 0
    /\ threads = 0

JobNext ==
    \/ BackupStart
    \/ CommandStart
    \/ CommandExit
    \/ Interrupt
    \/ Cleanup
    \/ MainExit

SpecBackup == JobInit /\ [][JobNext]_vars

-----------------------------------------------------------------------------
(* Properties of ShellBackupJob.backup *)

BackupEnded == bpc \in {"returned", "raised"}

\* backup() was called with a file at the target and overwrite enabled.
Overwriting == DiskIsFile(disk0, backup_target) /\ overwrite

\* C4: with an existing target and overwrite enabled, while the external
\* command is to run or runs, the old backup's content is on disk under a
\* name other than the target the command writes to.
C4_OldBackupKeptAside ==
    (Overwriting /\ bpc \in {"run", "running"})
        => \E n \in DOMAIN disk : n # backup_target /\ disk[n] = "old"

\* C5: with an existing target and overwrite disabled, backup() fails with
\* an InvalidBackupTarget carrying EEXIST, the file is neither renamed nor
\* deleted and the external command is never invoked.
C5_ExistingTargetRaisesEEXIST ==
    (BackupEnded /\ DiskIsFile(disk0, backup_target) /\ ~overwrite)
        => /\ bresult.kind = "raise"
           /\ bresult.exc.cls = "InvalidBackupTarget"
           /\ bresult.exc.args0 = EEXIST
           /\ disk = disk0
           /\ invoked = 0

\* C6: exit code 2 of the external command is a success: backup() returns
\* the exit code and the old backup moved aside is deleted.
C6_ExitCode2IsSuccess ==
    (BackupEnded /\ exit_code = 2)
        => /\ bresult.kind = "return"
           /\ bresult.value = 2
           /\ Overwriting => RotatedName(backup_target, now) \notin DOMAIN disk

\* C7: with an existing target and overwrite enabled, after backup() has
\* returned no file exists at the name the old backup was moved to.
C7_RotatedDeletedAfterSuccess ==
    (bpc = "returned" /\ Overwriting)
        => RotatedName(backup_target, now) \notin DOMAIN disk

C7_Witness ==
    /\ bpc = "returned"
    /\ Overwriting
    /\ RotatedName(backup_target, now) # backup_target
    /\ bresult = [kind |-> "return", value |-> 0]
    /\ disk[backup_target] = "new"

\* C8: with an existing target and overwrite enabled, when the external
\* command ends with a non-success exit code backup() raises and the old
\* backup is still there under the name it was moved to.
C8_FailedRunKeepsOldBackup ==
    (BackupEnded /\ Overwriting /\ exit_code \notin {-1, 0, 2})
        => /\ bresult.kind = "raise"
           /\ RotatedName(backup_target, now) \in DOMAIN disk
           /\ disk[RotatedName(backup_target, now)] = "old"

-----------------------------------------------------------------------------
(* GoogleDriveBackupJob: backup() and backup_worker *)

\* The settings of num_workers drawn.
WorkerCounts == {1, 2}
\* Most entries the source tree holds.
MaxFiles == 3
\* Queue(maxsize=self.num_workers * 100): the model runs the pipeline with
\* a smaller factor than the program's 100.
QueueFactor == 2
\* upload_file gives up when tries reaches 5.
MaxTries == 5

maxsize == num_workers * QueueFactor
Workers == 1..num_workers

\* The sentinel None in the queue.
NoJob == 0

\* What glob yields: a regular file, a regular file of 100 MiB or more, a
\* directory, or a symbolic link to a regular file.
EntryKinds == {"file", "big", "dir", "link"}

\* Line 86: Path.is_file() follows symbolic links.
is_file(kind) == kind \in {"file", "big", "link"}

\* Lines 86-91: entries that are no files are skipped, and big files.
Enqueued(kind) == is_file(kind) /\ kind # "big"

\* Line 94: 'parent_dir': None, for every job.
JobParentDir(i) == None

\* How one attempt of upload_file ends: the file is uploaded, the remote
\* copy is up to date, or the request fails with status 404 or another.
AttemptResults == {"uploaded", "uptodate", "http404", "httpError"}

\* Lines 85-96: glob yields the next entry; a file is put on the queue.
\* put_nowait raises queue.Full on a full queue.
WalkNext ==
    /\ ppc = "walk"
    /\ Len(tree) < MaxFiles
    /\ \E kind \in EntryKinds :
          /\ tree' = Append(tree, kind)
          /\ outcome' = Append(outcome, "none")
          /\ gets' = Append(gets, 0)
          /\ objects' = Append(objects, 0)
          /\ IF ~Enqueued(kind)
             THEN UNCHANGED <<queue, unfinished, ppc>>
             ELSE IF Len(queue) >= maxsize
             THEN /\ ppc' = "raised"
                  /\ UNCHANGED <<queue, unfinished>>
             ELSE /\ queue' = Append(queue, Len(tree) + 1)
                  /\ unfinished' = unfinished + 1
                  /\ ppc' = "check"
    /\ UNCHANGED <<chunkVars, backup_target, valVars, jobVars, drvVars, ctorVars, num_workers, update,
                   remote_dir0, created, sentinels, wsent, pidx, wpc, wjob,
                   tries>>

\* Lines 97-98 without the join: the walk goes on whatever the queue holds.
CheckFull_NoJoin ==
    /\ ppc = "check"
    /\ ppc' = "walk"
    /\ UNCHANGED <<chunkVars, backup_target, valVars, jobVars, drvVars, ctorVars, num_workers, update, tree,
                   remote_dir0, created, gets, objects, sentinels, wsent,
                   queue, unfinished, pidx, wpc, wjob, tries, outcome>>

\* Lines 97-98: if self.queue.qsize() + self.num_workers >= self.queue.maxsize
CheckFull ==
    /\ ppc = "check"
    /\ ppc' = IF Len(queue) + num_workers >= maxsize THEN "join_mid" ELSE "walk"
    /\ UNCHANGED <<chunkVars, backup_target, valVars, jobVars, drvVars, ctorVars, num_workers, update, tree,
                   remote_dir0, created, gets, objects, sentinels, wsent,
                   queue, unfinished, pidx, wpc, wjob, tries, outcome>>

\* JoinMid that waits for an empty queue, not for the acknowledgements.
JoinMid_UntilEmpty ==
    /\ ppc = "join_mid"
    /\ queue = <<>>
    /\ ppc' = "walk"
    /\ UNCHANGED <<chunkVars, backup_target, valVars, jobVars, drvVars, ctorVars, num_workers, update, tree,
                   remote_dir0, created, gets, objects, sentinels, wsent,
                   queue, unfinished, pidx, wpc, wjob, tries, outcome>>

\* Line 98: self.queue.join() returns when every task put was acknowledged.
JoinMid ==
    /\ ppc = "join_mid"
    /\ unfinished = 0
    /\ ppc' = "walk"
    /\ UNCHANGED <<chunkVars, backup_target, valVars, jobVars, drvVars, ctorVars, num_workers, update, tree,
                   remote_dir0, created, gets, objects, sentinels, wsent,
                   queue, unfinished, pidx, wpc, wjob, tries, outcome>>

\* Line 85: glob is exhausted.
WalkEnd ==
    /\ ppc = "walk"
    /\ ppc' = "join_final"
    /\ UNCHANGED <<chunkVars, backup_target, valVars, jobVars, drvVars, ctorVars, num_workers, update, tree,
                   remote_dir0, created, gets, objects, sentinels, wsent,
                   queue, unfinished, pidx, wpc, wjob, tries, outcome>>

\* Line 99 without its wait.
JoinFinal_NoWait ==
    /\ ppc = "join_final"
    /\ ppc' = "sentinels"
    /\ pidx' = 0
    /\ UNCHANGED <<chunkVars, backup_target, valVars, jobVars, drvVars, ctorVars, num_workers, update, tree,
                   remote_dir0, created, gets, objects, sentinels, wsent,
                   queue, unfinished, wpc, wjob, tries, outcome>>

\* Line 99: self.queue.join()
JoinFinal ==
    /\ ppc = "join_final"
    /\ unfinished = 0
    /\ ppc' = "sentinels"
    /\ pidx' = 0
    /\ UNCHANGED <<chunkVars, backup_target, valVars, jobVars, drvVars, ctorVars, num_workers, update, tree,
                   remote_dir0, created, gets, objects, sentinels, wsent,
                   queue, unfinished, wpc, wjob, tries, outcome>>

\* Lines 100-101: self.queue.put(None), once per worker; put blocks while
\* the queue is full.
PutSentinel ==
    /\ ppc = "sentinels"
    /\ Len(queue) < maxsize
    /\ queue' = Append(queue, NoJob)
    /\ unfinished' = unfinished + 1
    /\ sentinels' = sentinels + 1
    /\ IF pidx + 1 < num_workers
       THEN /\ pidx' = pidx + 1
            /\ UNCHANGED ppc
       ELSE /\ pidx' = 0
            /\ ppc' = "join_threads"
    /\ UNCHANGED <<chunkVars, backup_target, valVars, jobVars, drvVars, ctorVars, num_workers, update, tree,
                   remote_dir0, created, gets, objects, wsent,
                   wpc, wjob, tries, outcome>>

\* Lines 102-103: t.join() returns when thread t has ended, by leaving its
\* loop or by an exception.
JoinThread ==
    /\ ppc = "join_threads"
    /\ wpc[pidx + 1] \in {"exited", "crashed"}
    /\ IF pidx + 1 < num_workers
       THEN /\ pidx' = pidx + 1
            /\ UNCHANGED ppc
       ELSE /\ pidx' = 0
            /\ ppc' = "returned"
    /\ UNCHANGED <<chunkVars, backup_target, valVars, jobVars, drvVars, ctorVars, num_workers, update, tree,
                   remote_dir0, created, gets, objects, sentinels, wsent,
                   queue, unfinished, wpc, wjob, tries, outcome>>

\* queue.get() that hands out the head of the queue and leaves it there.
WorkerGet_NoPop(w) ==
    /\ wpc[w] = "get"
    /\ queue # <<>>
    /\ Head(queue) # NoJob
    /\ gets[Head(queue)] < 2
    /\ wpc' = [wpc EXCEPT ![w] = "list_dir"]
    /\ wjob' = [wjob EXCEPT ![w] = Head(queue)]
    /\ gets' = [gets EXCEPT ![Head(queue)] = @ + 1]
    /\ UNCHANGED <<chunkVars, backup_target, valVars, jobVars, drvVars, ctorVars, num_workers, update, tree,
                   remote_dir0, created, objects, sentinels, wsent, queue,
                   tries, unfinished, ppc, pidx, outcome>>

\* Lines 78-81: job = self.queue.get() blocks on an empty queue; None ends
\* the loop. upload_file is entered with tries=0, and goes to
\* _directory_structure when the job's parent_dir is None (line 429).
WorkerGet(w) ==
    /\ wpc[w] = "get"
    /\ queue # <<>>
    /\ queue' = Tail(queue)
    /\ IF Head(queue) = NoJob
       THEN /\ wpc' = [wpc EXCEPT ![w] = "exited"]
            /\ wsent' = [wsent EXCEPT ![w] = @ + 1]
            /\ UNCHANGED <<wjob, tries, gets>>
       ELSE /\ wpc' = [wpc EXCEPT ![w] =
                          IF JobParentDir(Head(queue)) = None
                          THEN "list_dir" ELSE "upload"]
            /\ wjob' = [wjob EXCEPT ![w] = Head(queue)]
            /\ tries' = [tries EXCEPT ![w] = 0]
            /\ gets' = [gets EXCEPT ![Head(queue)] = @ + 1]
            /\ UNCHANGED wsent
    /\ UNCHANGED <<chunkVars, backup_target, valVars, jobVars, drvVars, ctorVars, num_workers, update, tree,
                   remote_dir0, created, objects, sentinels,
                   unfinished, ppc, pidx, outcome>>

\* _directory_structure, lines 349-367, for the directory the files of the
\* tree share: the folder is listed under base_dir; a folder found is the
\* parent, none found sends the worker to _create_directory.
WorkerListDir(w) ==
    /\ wpc[w] = "list_dir"
    /\ wpc' = [wpc EXCEPT ![w] = IF remote_dir0 \/ created > 0
                                 THEN "upload" ELSE "create_dir"]
    /\ UNCHANGED <<chunkVars, backup_target, valVars, jobVars, drvVars, ctorVars, num_workers, update, tree,
                   remote_dir0, created, gets, objects, sentinels, wsent,
                   queue, unfinished, ppc, pidx, wjob, tries, outcome>>

\* Line 368 and _create_directory, lines 332-339: files().create of a
\* folder; Drive makes a new folder whatever folders exist by that name.
WorkerCreateDir(w) ==
    /\ wpc[w] = "create_dir"
    /\ created' = created + 1
    /\ wpc' = [wpc EXCEPT ![w] = "upload"]
    /\ UNCHANGED <<chunkVars, backup_target, valVars, jobVars, drvVars, ctorVars, num_workers, update, tree,
                   remote_dir0, gets, objects, sentinels, wsent,
                   queue, unfinished, ppc, pidx, wjob, tries, outcome>>

\* Line 81: the call of upload_file, lines 435-464, with its retries. The
\* file is uploaded or found up to date, or an exception leaves upload_file
\* and backup_worker and the thread ends: a 404 on each of MaxTries
\* attempts, or another error. The attempts after a 404 start upload_file
\* again and find the folder, which exists by then.
WorkerUpload(w) ==
    /\ wpc[w] = "upload"
    /\ \E r \in AttemptResults :
          /\ r = "uptodate" => update
          /\ IF r \in {"uploaded", "uptodate"}
             THEN /\ outcome' = [outcome EXCEPT ![wjob[w]] = r]
                  /\ objects' = [objects EXCEPT ![wjob[w]] =
                                    IF r = "uploaded" THEN @ + 1 ELSE @]
                  /\ wpc' = [wpc EXCEPT ![w] = "task_done"]
                  /\ UNCHANGED tries
             ELSE /\ tries' = [tries EXCEPT ![w] = IF r = "http404"
                                                  THEN MaxTries ELSE @]
                  /\ outcome' = [outcome EXCEPT ![wjob[w]] = "failed"]
                  /\ wpc' = [wpc EXCEPT ![w] = "crashed"]
                  /\ UNCHANGED objects
    /\ UNCHANGED <<chunkVars, backup_target, valVars, jobVars, drvVars, ctorVars, num_workers, update, tree,
                   remote_dir0, created, gets, sentinels, wsent,
                   queue, unfinished, ppc, pidx, wjob>>

\* The worker goes back to the queue without self.queue.task_done().
WorkerTaskDone_NoAck(w) ==
    /\ wpc[w] = "task_done"
    /\ wpc' = [wpc EXCEPT ![w] = "get"]
    /\ UNCHANGED <<chunkVars, backup_target, valVars, jobVars, drvVars, ctorVars, num_workers, update, tree,
                   remote_dir0, created, gets, objects, sentinels, wsent,
                   queue, unfinished, ppc, pidx, wjob, tries, outcome>>

\* Line 82: self.queue.task_done()
WorkerTaskDone(w) ==
    /\ wpc[w] = "task_done"
    /\ unfinished' = unfinished - 1
    /\ wpc' = [wpc EXCEPT ![w] = "get"]
    /\ UNCHANGED <<chunkVars, backup_target, valVars, jobVars, drvVars, ctorVars, num_workers, update, tree,
                   remote_dir0, created, gets, objects, sentinels, wsent,
                   queue, ppc, pidx, wjob, tries, outcome>>

\* Lines 67-74: the threads are started by __init__ and wait on the queue
\* when backup() is called.
UpInit ==
    /\ ChunkIdle
    /\ ValIdle
    /\ JobIdle
    /\ DrvIdle
    /\ CtorIdle
    /\ backup_target = None
    /\ num_workers \in WorkerCounts
    /\ update \in BOOLEAN
    /\ remote_dir0 \in BOOLEAN
    /\ created = 0
    /\ tree = <<>>
    /\ queue = <<>>
    /\ unfinished = 0
    /\ sentinels = 0
    /\ ppc = "walk"
    /\ pidx = 0
    /\ wpc = [w \in Workers |-> "get"]
    /\ wjob = [w \in Workers |-> NoJob]
    /\ tries = [w \in Workers |-> 0]
    /\ wsent = [w \in Workers |-> 0]
    /\ outcome = <<>>
    /\ gets = <<>>
    /\ objects = <<>>

UpNext ==
    \/ WalkNext
    \/ CheckFull
    \/ JoinMid
    \/ WalkEnd
    \/ JoinFinal
    \/ PutSentinel
    \/ JoinThread
    \/ \E w \in Workers : WorkerGet(w)
    \/ \E w \in Workers : WorkerListDir(w)
    \/ \E w \in Workers : WorkerCreateDir(w)
    \/ \E w \in Workers : WorkerUpload(w)
    \/ \E w \in Workers : WorkerTaskDone(w)

SpecUpload == UpInit /\ [][UpNext]_vars

\* The steps of backup(), the producer thread.
Producer ==
    WalkNext \/ CheckFull \/ JoinMid \/ WalkEnd \/ JoinFinal \/ PutSentinel \/ JoinThread

\* The steps of one worker thread.
Worker(w) ==
    /\ w \in Workers
    /\ \/ WorkerGet(w)
       \/ WorkerListDir(w)
       \/ WorkerCreateDir(w)
       \/ WorkerUpload(w)
       \/ WorkerTaskDone(w)

\* Every thread that can take a step is scheduled sooner or later.
UpFairness ==
    /\ WF_vars(Producer)
    /\ \A w \in UNION {1..n : n \in WorkerCounts} : WF_vars(Worker(w))

SpecUploadFair == SpecUpload /\ UpFairness

-----------------------------------------------------------------------------
(* Properties of the upload pipeline *)

\* Nothing can happen any more: backup() has ended, or every thread waits.
UpStopped == ~ENABLED UpNext

SomeUploadFailed == \E i \in 1..Len(outcome) : outcome[i] = "failed"

\* C9: an upload task that fails for good (the retry cap, or an error that
\* is not retried) is surfaced to the caller of backup(): backup() ends by
\* raising, it neither completes silently nor fails to complete.
C9_UploadFailureSurfaced ==
    (UpStopped /\ \E w \in Workers : wpc[w] = "crashed") => ppc = "raised"

\* C10: a file that fails for good is fatal for that file only: every other
\* file enumerated is still uploaded or skipped as up to date, and the run
\* completes.
C10_OtherFilesStillProcessed ==
    (UpStopped /\ SomeUploadFailed)
        => /\ ppc = "returned"
           /\ \A i \in 1..Len(tree) :
                 (Enqueued(tree[i]) /\ outcome[i] # "failed")
                     => outcome[i] \in {"uploaded", "uptodate"}

\* The tasks a worker holds: taken from the queue and not yet acknowledged.
Holding(w) == wpc[w] \in {"list_dir", "create_dir", "upload", "task_done"}

\* C11: the chain of remote folders of a file is resolved or created by the
\* producer before the task is enqueued: a task a worker holds carries its
\* remote parent folder, and no worker lists or creates folders.
C11_FoldersResolvedByProducer ==
    \A w \in Workers :
        Holding(w) => /\ JobParentDir(wjob[w]) # None
                      /\ wpc[w] \notin {"list_dir", "create_dir"}

\* C12: the run creates at most one remote folder of a given name under a
\* given parent, whatever the interleaving of the workers.
C12_AtMostOneFolderCreated == created <= 1

\* C13: when the uploads succeed, each task enqueued is handed out by
\* queue.get() exactly once and gives exactly one remote object for its
\* file (none when the remote copy is up to date); an entry that was not
\* enqueued is never handed out.
C13_EachTaskProcessedOnce ==
    /\ \A i \in 1..Len(tree) : gets[i] <= 1 /\ objects[i] <= gets[i]
    /\ \A i \in 1..Len(tree) : ~Enqueued(tree[i]) => gets[i] = 0
    /\ ppc = "returned" =>
          \A i \in 1..Len(tree) :
              Enqueued(tree[i]) =>
                  /\ gets[i] = 1
                  /\ outcome[i] \in {"uploaded", "uptodate"}
                  /\ objects[i] = (IF outcome[i] = "uploaded" THEN 1 ELSE 0)

C13_Witness ==
    /\ ppc = "returned"
    /\ num_workers = 2
    /\ \E i, j \in 1..Len(tree) :
          i # j /\ outcome[i] = "uploaded" /\ outcome[j] = "uploaded"

\* An entry was put on the queue: it is there, or was handed out.
WasEnqueued(i) == gets[i] > 0 \/ \E k \in 1..Len(queue) : queue[k] = i

\* C14: the tasks enqueued are exactly the regular files under the source:
\* every regular file, of any size, and no directory or symbolic link.
C14_EnqueuedExactlyRegularFiles ==
    \A i \in 1..Len(tree) : WasEnqueued(i) <=> tree[i] \in {"file", "big"}

\* A task that was enqueued and is not acknowledged yet.
RealTaskPending ==
    \/ \E k \in 1..Len(queue) : queue[k] # NoJob
    \/ \E w \in Workers : Holding(w) \/ wpc[w] = "crashed"

\* C20: no sentinel is enqueued while a task is unacknowledged; one
\* sentinel per worker is enqueued; each worker takes one sentinel and
\* exits; when backup() returns every worker has ended and the queue is
\* empty.
C20_ShutdownOrdering ==
    /\ sentinels > 0 => ~RealTaskPending
    /\ sentinels <= num_workers
    /\ ppc \in {"join_threads", "returned"} => sentinels = num_workers
    /\ \A w \in Workers : /\ wsent[w] <= 1
                          /\ wsent[w] = 1 <=> wpc[w] = "exited"
    /\ ppc = "returned" => /\ \A w \in Workers : wpc[w] = "exited"
                           /\ queue = <<>>

C20_Witness ==
    /\ ppc = "returned"
    /\ num_workers = 2
    /\ sentinels = 2
    /\ \E i \in 1..Len(tree) : outcome[i] = "uploaded"

-----------------------------------------------------------------------------
(* GoogleDrivePlugin: the listings of the Drive API *)

\* Most entries of a listing.
MaxEntries == 3
\* Most entries Drive puts on one page.
MaxPageSize == 2
\* Modification times are 1..MaxTime.
MaxTime == 2

\* The names of the entries of a listing: the folder looked for, and another.
EntryNames == {"d", "x"}

Entries == [name : EntryNames, trashed : BOOLEAN, mtime : 1..MaxTime]

\* The sequences of at most n elements of S.
Listings(S, n) == UNION {[1..k -> S] : k \in 0..n}

\* orderBy='folder,name' and orderBy='name,modifiedTime desc': a listing is
\* ordered by name and, under one name, newest first.
Ordered(es) ==
    \A i, j \in 1..Len(es) :
        i < j => \/ es[i].name = "d" /\ es[j].name = "x"
                 \/ es[i].name = es[j].name /\ es[i].mtime >= es[j].mtime

\* The responses of files().list and list_next for a listing: pages of
\* pagesize entries; every page but the last carries a nextPageToken. An
\* entry is given with its place in the listing as its id.
NumPages(es, size) ==
    IF Len(es) = 0 THEN 1 ELSE (Len(es) + size - 1) \div size

Pages(es, size) ==
    [p \in 1..NumPages(es, size) |->
        [k \in 1..(IF p * size <= Len(es) THEN size ELSE Len(es) - (p - 1) * size)
            |-> [id |-> (p - 1) * size + k,
                 name |-> es[(p - 1) * size + k].name,
                 trashed |-> es[(p - 1) * size + k].trashed,
                 mtime |-> es[(p - 1) * size + k].mtime]]]

\* 'nextPageToken' in the response for page p.
HasNextPageToken(pages, p) == p < Len(pages)

\* No entry: _match_dirname returns None.
NoMatch == [id |-> 0, name |-> "", trashed |-> FALSE, mtime |-> 0]

Min(S) == CHOOSE x \in S : \A y \in S : x <= y

\* _match_dirname, lines 312-319: the first entry of the page that is not
\* trashed and has the name.
match_dirname(files, filename) ==
    LET hits == {k \in 1..Len(files) :
                    ~files[k].trashed /\ files[k].name = filename}
    IN  IF hits = {} THEN NoMatch ELSE files[Min(hits)]

\* The loop of lines 360-366 (and 241-247), at page p: while the page has a
\* nextPageToken it is searched, and the next page is fetched when it holds
\* no match; a page without nextPageToken ends the loop.
RECURSIVE MatchLoop(_, _, _)
MatchLoop(pages, p, filename) ==
    IF ~HasNextPageToken(pages, p)
    THEN NoMatch
    ELSE LET m == match_dirname(pages[p], filename)
         IN  IF m # NoMatch THEN m ELSE MatchLoop(pages, p + 1, filename)

\* _directory_structure, lines 354-366: matched_dir for one part of the path.
MatchedDir(pages, filename) ==
    IF ~HasNextPageToken(pages, 1)
    THEN match_dirname(pages[1], filename)
    ELSE MatchLoop(pages, 1, filename)

\* _validate_base_dir, lines 234-247: matched_dir for the base directory.
MatchedBaseDir(pages, dir_name) ==
    IF ~HasNextPageToken(pages, 1)
    THEN match_dirname(pages[1], dir_name)
    ELSE MatchLoop(pages, 1, dir_name)

\* Lines 275-284 and 291-298, the loop over the files of one page: "none"
\* when no entry of the page decides, else whether mtime > drive_mtime.
PageDecision(files, name, mtime) ==
    LET hits == {k \in 1..Len(files) :
                    ~files[k].trashed /\ files[k].name = name}
    IN  IF hits = {} THEN "none"
        ELSE IF mtime > files[Min(hits)].mtime THEN "upload" ELSE "skip"

\* The loop of lines 287-298, after page p: while that page has a
\* nextPageToken the next page is fetched and searched.
RECURSIVE UpdateLoop(_, _, _, _)
UpdateLoop(pages, p, name, mtime) ==
    IF ~HasNextPageToken(pages, p)
    THEN "none"
    ELSE LET d == PageDecision(pages[p + 1], name, mtime)
         IN  IF d # "none" THEN d ELSE UpdateLoop(pages, p + 1, name, mtime)

\* should_update_file, lines 272-302.
should_update_file(pages, name, mtime) ==
    LET d == IF ~HasNextPageToken(pages, 1)
             THEN PageDecision(pages[1], name, mtime)
             ELSE UpdateLoop(pages, 1, name, mtime)
    IN  d # "skip"

\* Lines 367-368 (and 249-251): the folder matched, or a folder created.
ListResolveDir ==
    /\ lpc = "ready"
    /\ LET m == MatchedDir(Pages(lentries, pagesize), lname)
       IN  lres' = [fn |-> "_directory_structure", match |-> m.id,
                    created |-> (m = NoMatch)]
    /\ lpc' = "done"
    /\ UNCHANGED <<chunkVars, backup_target, valVars, jobVars, upVars, ctorVars, pagesize, lentries,
                   lname, lmtime, rfiles, rfiles0, resumable, dupdate, dpc,
                   dtries, attempts, backoffs, only404, dstatus, dfollow,
                   consulted, dresults>>

ListValidateBase ==
    /\ lpc = "ready"
    /\ LET m == MatchedBaseDir(Pages(lentries, pagesize), lname)
       IN  lres' = [fn |-> "_validate_base_dir", match |-> m.id,
                    created |-> (m = NoMatch)]
    /\ lpc' = "done"
    /\ UNCHANGED <<chunkVars, backup_target, valVars, jobVars, upVars, ctorVars, pagesize, lentries,
                   lname, lmtime, rfiles, rfiles0, resumable, dupdate, dpc,
                   dtries, attempts, backoffs, only404, dstatus, dfollow,
                   consulted, dresults>>

ListShouldUpdate ==
    /\ lpc = "ready"
    /\ lres' = [fn |-> "should_update_file",
                value |-> should_update_file(Pages(lentries, pagesize),
                                             lname, lmtime)]
    /\ lpc' = "done"
    /\ UNCHANGED <<chunkVars, backup_target, valVars, jobVars, upVars, ctorVars, pagesize, lentries,
                   lname, lmtime, rfiles, rfiles0, resumable, dupdate, dpc,
                   dtries, attempts, backoffs, only404, dstatus, dfollow,
                   consulted, dresults>>

ListInit ==
    /\ ChunkIdle
    /\ ValIdle
    /\ JobIdle
    /\ UpIdle
    /\ CtorIdle
    /\ backup_target = None
    /\ pagesize \in 1..MaxPageSize
    /\ lentries \in {es \in Listings(Entries, MaxEntries) : Ordered(es)}
    /\ lname = "d"
    /\ lmtime \in 1..MaxTime
    /\ lpc = "ready"
    /\ lres = [fn |-> "none"]
    /\ rfiles = <<>>
    /\ rfiles0 = <<>>
    /\ resumable = FALSE
    /\ dupdate = FALSE
    /\ dpc = "off"
    /\ dtries = 0
    /\ attempts = 0
    /\ backoffs = 0
    /\ only404 = TRUE
    /\ dstatus = 0
    /\ dfollow = "none"
    /\ consulted = FALSE
    /\ dresults = <<>>

ListNext ==
    \/ ListResolveDir
    \/ ListValidateBase
    \/ ListShouldUpdate

SpecListing == ListInit /\ [][ListNext]_vars

-----------------------------------------------------------------------------
(* Properties of the listings *)

\* The first entry of the whole listing that is not trashed and has the
\* name; 0 when there is none.
FirstLive(es, name) ==
    LET hits == {k \in 1..Len(es) : ~es[k].trashed /\ es[k].name = name}
    IN  IF hits = {} THEN 0 ELSE Min(hits)

\* C18: folder resolution returns the first entry, over all the pages in
\* listing order, that is not trashed and has exactly the name, and creates
\* a folder only when no page holds such an entry.
C18_FirstLiveFolderOverAllPages ==
    (lpc = "done" /\ lres.fn \in {"_directory_structure", "_validate_base_dir"})
        => /\ lres.match = FirstLive(lentries, lname)
           /\ lres.created <=> FirstLive(lentries, lname) = 0

-----------------------------------------------------------------------------
(* GoogleDrivePlugin.upload_file *)

\* Most remote copies of the file before the first call.
MaxRemote == 2
\* Most calls of upload_file for the file.
MaxCalls == 2
\* Most retries of the backoff decorator in one call.
MaxBackoff == 2

\* The HTTP statuses a request ends with.
Statuses == {200, 403, 404, 500, 501, 503}

\* upload_giveup, lines 31-33.
upload_giveup(status) == status \notin {500, 502, 503, 504}

\* Line 460 with > for >=.
TriesExhausted_OneMore(t) == t > MaxTries

\* Line 460: if tries >= 5
TriesExhausted(t) == t >= MaxTries

\* Drive stamps a new object with the time of the upload, which is later
\* than every time seen before.
UploadTime == MaxTime + 1

Last(seq) == seq[Len(seq)]

\* upload_file is called (line 407, tries=0).
DrvCall ==
    /\ dpc = "idle"
    /\ Len(dresults) < MaxCalls
    /\ dpc' = "decide"
    /\ dtries' = 0
    /\ attempts' = 0
    /\ backoffs' = 0
    /\ only404' = TRUE
    /\ dstatus' = 0
    /\ dfollow' = "none"
    /\ consulted' = FALSE
    /\ UNCHANGED <<chunkVars, backup_target, valVars, jobVars, upVars, ctorVars, pagesize, lentries,
                   lname, lmtime, lpc, lres, rfiles, rfiles0, resumable,
                   dupdate, dresults>>

\* Lines 435-443: without self.update the file is uploaded; with it,
\* should_update_file lists the remote copies and decides.
DrvDecide ==
    /\ dpc = "decide"
    /\ LET upload == IF ~dupdate THEN TRUE
                     ELSE should_update_file(Pages(rfiles, pagesize),
                                             lname, lmtime)
       IN  IF upload
           THEN /\ dpc' = "request"
                /\ UNCHANGED dresults
           ELSE /\ dpc' = "idle"
                /\ dresults' = Append(dresults, "skipped")
    /\ consulted' = (consulted \/ dupdate)
    /\ UNCHANGED <<chunkVars, backup_target, valVars, jobVars, upVars, ctorVars, pagesize, lentries,
                   lname, lmtime, lpc, lres, rfiles, rfiles0, resumable,
                   dupdate, dtries, attempts, backoffs, only404, dstatus,
                   dfollow>>

\* Lines 451-464: the create request is executed, through _resumable_upload
\* and its backoff decorator (line 372) for a resumable upload and directly
\* otherwise. An HttpError the decorator does not retry reaches the except
\* clause: a 404 calls upload_file again with tries + 1 unless the tries
\* are exhausted, any other status is raised.
DrvRequest ==
    /\ dpc = "request"
    /\ \E st \in Statuses :
          /\ (resumable /\ ~upload_giveup(st)) => backoffs < MaxBackoff
          /\ attempts' = attempts + 1
          /\ dstatus' = st
          /\ only404' = (only404 /\ st = 404)
          /\ IF st = 200
             THEN /\ rfiles' = <<[name |-> lname, trashed |-> FALSE,
                                  mtime |-> UploadTime]>> \o rfiles
                  /\ dresults' = Append(dresults, "uploaded")
                  /\ dpc' = "idle"
                  /\ dfollow' = "return"
                  /\ UNCHANGED <<dtries, backoffs>>
             ELSE IF resumable /\ ~upload_giveup(st)
             THEN /\ backoffs' = backoffs + 1
                  /\ dfollow' = "backoff"
                  /\ UNCHANGED <<rfiles, dresults, dpc, dtries>>
             ELSE IF st = 404 /\ ~TriesExhausted(dtries + 1)
             THEN /\ dtries' = dtries + 1
                  /\ dpc' = "decide"
                  /\ dfollow' = "retry"
                  /\ UNCHANGED <<rfiles, dresults, backoffs>>
             ELSE /\ dtries' = IF st = 404 THEN dtries + 1 ELSE dtries
                  /\ dresults' = Append(dresults, "raised")
                  /\ dpc' = "idle"
                  /\ dfollow' = "raise"
                  /\ UNCHANGED <<rfiles, backoffs>>
    /\ UNCHANGED <<chunkVars, backup_target, valVars, jobVars, upVars, ctorVars, pagesize, lentries,
                   lname, lmtime, lpc, lres, rfiles0, resumable, dupdate,
                   consulted>>

DrvInit ==
    /\ ChunkIdle
    /\ ValIdle
    /\ JobIdle
    /\ UpIdle
    /\ CtorIdle
    /\ backup_target = None
    /\ pagesize \in 1..MaxPageSize
    /\ lentries = <<>>
    /\ lname = "d"
    /\ lmtime \in 1..MaxTime
    /\ lpc = "idle"
    /\ lres = [fn |-> "none"]
    /\ rfiles \in {es \in Listings([name : {"d"}, trashed : BOOLEAN,
                                    mtime : 1..MaxTime], MaxRemote) :
                      Ordered(es)}
    /\ rfiles0 = rfiles
    /\ resumable \in BOOLEAN
    /\ dupdate \in BOOLEAN
    /\ dpc = "idle"
    /\ dtries = 0
    /\ attempts = 0
    /\ backoffs = 0
    /\ only404 = TRUE
    /\ dstatus = 0
    /\ dfollow = "none"
    /\ consulted = FALSE
    /\ dresults = <<>>

DrvNext ==
    \/ DrvCall
    \/ DrvDecide
    \/ DrvRequest

SpecDrive == DrvInit /\ [][DrvNext]_vars

-----------------------------------------------------------------------------
(* Properties of upload_file *)

\* C15: a file whose upload fails with 404 every time is attempted exactly
\* MaxTries times: tries counts the failures from 0, the call goes on after
\* each of the first four, and the fifth is raised.
C15_NotFoundTriedFiveTimes ==
    only404 =>
        /\ attempts <= MaxTries
        /\ dtries = attempts
        /\ (attempts >= 1 /\ attempts < MaxTries)
              => dfollow = "retry" /\ dpc \in {"decide", "request"}
        /\ attempts = MaxTries
              => dfollow = "raise" /\ dpc = "idle" /\ Last(dresults) = "raised"

C15_Witness ==
    /\ only404
    /\ attempts = MaxTries
    /\ dresults = <<"raised">>

\* Whether the file needs an upload: no remote copy that is not trashed, or
\* a local file newer than the first (newest) such copy.
UpdateNeeded(es, name, mtime) ==
    \/ FirstLive(es, name) = 0
    \/ mtime > es[FirstLive(es, name)].mtime

\* C16: in update mode upload_file uploads if and only if there is no
\* remote copy that is not trashed or the local file is strictly newer; in
\* overwrite mode it always uploads, without listing the remote copies.
C16_UploadsIffNeeded ==
    /\ (dupdate /\ dpc = "request") => UpdateNeeded(rfiles, lname, lmtime)
    /\ (dupdate /\ dpc = "idle" /\ dresults # <<>> /\ Last(dresults) = "skipped")
          => ~UpdateNeeded(rfiles, lname, lmtime)
    /\ ~dupdate => /\ ~consulted
                   /\ \A i \in 1..Len(dresults) : dresults[i] # "skipped"

LiveCount(es) == Cardinality({k \in 1..Len(es) : ~es[k].trashed})

\* C17: two calls of upload_file in update mode for the same unchanged
\* file, the first of which creates the remote copy, leave exactly one
\* remote object: the second call is a skip.
C17_SecondUploadIsSkip ==
    (/\ dupdate
     /\ LiveCount(rfiles0) = 0
     /\ Len(dresults) = 2
     /\ dresults[1] = "uploaded"
     /\ dresults[2] # "raised")
        => /\ dresults[2] = "skipped"
           /\ LiveCount(rfiles) = 1

\* C19: an upload that fails with an HTTP error is retried with backoff if
\* and only if the status is a 5xx, resumable or not.
C19_BackoffIffServerError ==
    (dstatus # 0 /\ dstatus # 200)
        => (dfollow = "backoff" <=> dstatus >= 500)

-----------------------------------------------------------------------------
(* create_backup_job and the constructors *)

\* The backup types create_backup_job is called with; no job is defined
\* for the last one.
CtorTypes == {"rsync", "tar", "gdrive", "ftp"}
\* The backup_target arguments drawn: /a, /a/a and /a/
CtorTargets == {<<"/", "a">>, <<"/", "a", "/", "a">>, <<"/", "a", "/">>}
\* The source arguments drawn: /a and /a/
CtorSources == {<<"/", "a">>, <<"/", "a", "/">>}
\* The exclude_file arguments drawn: None and /a/a
CtorExcludes == {None, <<"/", "a", "/", "a">>}

IOErrorENOENT == [cls |-> "IOError", errno |-> ENOENT]

\* CtorAfter, with the plugin created and the threads started before the
\* exclude file is looked at.
CtorAfter_PluginFirst(type, step) ==
    IF type = "gdrive"
    THEN CASE step = "source" -> "plugin"
           [] step = "plugin" -> "threads"
           [] step = "threads" -> "exclude"
           [] OTHER -> "constructed"
    ELSE CASE step = "source" -> "validate"
           [] step = "validate" -> "exclude"
           [] OTHER -> "constructed"

\* The order of the statements of the constructors: what follows a step
\* that did not raise.
CtorAfter(type, step) ==
    IF type = "gdrive"
    THEN CASE step = "source" -> "exclude"
           [] step = "exclude" -> "plugin"
           [] step = "plugin" -> "threads"
           [] OTHER -> "constructed"
    ELSE CASE step = "source" -> "validate"
           [] step = "validate" -> "exclude"
           [] OTHER -> "constructed"

\* create_backup_job: the class is chosen by backup_type.
CreateBackupJob ==
    /\ kpc = "create"
    /\ IF backup_type \in {"rsync", "tar", "gdrive"}
       THEN /\ kpc' = "source"
            /\ UNCHANGED kresult
       ELSE /\ kpc' = "raised"
            /\ kresult' = [cls |-> "TypeError"]
    /\ UNCHANGED <<chunkVars, backup_target, valVars, jobVars, upVars, drvVars, attrVars, command,
                   base_dir0, folders, threads>>

\* if not os.path.exists(source): raise IOError(errno.ENOENT, ...); the
\* shell jobs go on to call validate_backup_target.
CtorCheckSource ==
    /\ kpc = "source"
    /\ IF ~exists(source)
       THEN /\ kpc' = "raised"
            /\ kresult' = IOErrorENOENT
            /\ UNCHANGED <<vpc, file_required>>
       ELSE /\ kpc' = CtorAfter(backup_type, "source")
            /\ UNCHANGED kresult
            /\ IF CtorAfter(backup_type, "source") = "validate"
               THEN /\ vpc' = "enter"
                    /\ file_required' = (backup_type = "tar")
               ELSE UNCHANGED <<vpc, file_required>>
    /\ UNCHANGED <<chunkVars, backup_target, jobVars, upVars, drvVars, attrVars, command,
                   base_dir0, folders, threads, fs, mounted, fstab, cur_dir, depth,
                   vresult, visited, checked>>

\* self.backup_target = ShellBackupJob.validate_backup_target(...): the
\* call has returned or raised.
CtorTargetValidated ==
    /\ kpc = "validate"
    /\ vpc \in {"returned", "raised"}
    /\ IF vpc = "raised"
       THEN /\ kpc' = "raised"
            /\ kresult' = vresult.exc
            /\ UNCHANGED backup_target
       ELSE /\ kpc' = CtorAfter(backup_type, "validate")
            /\ backup_target' = vresult.value
            /\ UNCHANGED kresult
    /\ UNCHANGED <<chunkVars, valVars, jobVars, upVars, drvVars, attrVars, command,
                   base_dir0, folders, threads>>

\* if exclude_file is not None: if not os.path.exists(exclude_file): raise
CtorCheckExclude ==
    /\ kpc = "exclude"
    /\ IF exclude_file # None /\ ~exists(exclude_file)
       THEN /\ kpc' = "raised"
            /\ kresult' = IOErrorENOENT
       ELSE /\ kpc' = CtorAfter(backup_type, "exclude")
            /\ UNCHANGED kresult
    /\ UNCHANGED <<chunkVars, backup_target, valVars, jobVars, upVars, drvVars, attrVars, command,
                   base_dir0, folders, threads>>

\* GoogleDrivePlugin(...): _validate_base_dir returns the base folder or
\* creates it.
CtorCreatePlugin ==
    /\ kpc = "plugin"
    /\ folders' = IF base_dir0 THEN folders ELSE folders + 1
    /\ kpc' = CtorAfter(backup_type, "plugin")
    /\ UNCHANGED <<chunkVars, backup_target, valVars, jobVars, upVars, drvVars, attrVars, command,
                   kresult, base_dir0, threads>>

\* for i in range(self.num_workers): t.start()
CtorStartThread ==
    /\ kpc = "threads"
    /\ IF threads < num_workers
       THEN /\ threads' = threads + 1
            /\ UNCHANGED kpc
       ELSE /\ kpc' = CtorAfter(backup_type, "threads")
            /\ UNCHANGED threads
    /\ UNCHANGED <<chunkVars, backup_target, valVars, jobVars, upVars, drvVars, attrVars, command,
                   kresult, base_dir0, folders>>

\* The backup_command property of the constructed shell job is read.
EvalCommand ==
    /\ kpc = "constructed"
    /\ backup_type \in {"rsync", "tar"}
    /\ command' = backup_command
    /\ kpc' = "command"
    /\ UNCHANGED <<chunkVars, backup_target, valVars, jobVars, upVars, drvVars, attrVars,
                   kresult, base_dir0, folders, threads>>

CtorInit ==
    /\ ChunkIdle
    /\ JobRest
    /\ UpRest
    /\ DrvIdle
    /\ ValRest
    /\ backup_type \in CtorTypes
    /\ num_workers \in (IF backup_type = "gdrive" THEN WorkerCounts ELSE {0})
    /\ fs \in FsConfigs
    /\ mounted \in SUBSET {n \in Nodes \ {Root} : fs[n] = "dir"}
    /\ fstab \in {{}, {<<"b", " ", "/", "a">>}}
    /\ backup_target \in CtorTargets
    /\ source \in CtorSources
    /\ exclude_file \in CtorExcludes
    /\ verbose \in BOOLEAN
    /\ dry_run \in (IF backup_type = "rsync" THEN BOOLEAN ELSE {FALSE})
    /\ incremental \in (IF backup_type = "rsync" THEN BOOLEAN ELSE {FALSE})
    /\ extra_args \in (IF backup_type \in {"rsync", "tar"} THEN ExtraArgs ELSE {PyNone})
    /\ compress \in (IF backup_type = "tar" THEN BOOLEAN ELSE {TRUE})
    /\ compression_type \in (IF backup_type = "tar" THEN {Absent, Msg("bzip2")}
                                                     ELSE {Absent})
    /\ extra_excludes \in (IF backup_type = "tar" THEN {<<>>, <<Msg("b")>>} ELSE {<<>>})
    /\ command = <<>>
    /\ kpc = "create"
    /\ kresult = NoExc
    /\ base_dir0 \in (IF backup_type = "gdrive" THEN BOOLEAN ELSE {FALSE})
    /\ folders = 0
    /\ threads = 0

CtorNext ==
    \/ CreateBackupJob
    \/ CtorCheckSource
    \/ ValidateEnter
    \/ ValidateSearch
    \/ ValidateFinal
    \/ ValidateReturn
    \/ CtorTargetValidated
    \/ CtorCheckExclude
    \/ CtorCreatePlugin
    \/ CtorStartThread
    \/ EvalCommand

SpecConstruct == CtorInit /\ [][CtorNext]_vars

-----------------------------------------------------------------------------
(* GoogleDrivePlugin.upload_chunk_size *)

\* chunk_limit, line 396.
chunk_limit == 256 * 1024

\* googleapiclient.http.DEFAULT_CHUNK_SIZE, the value of default_chunk_size
\* when the plugin is given none.
DEFAULT_CHUNK_SIZE == 100 * 1024 * 1024

\* The sizes drawn reach up to MaxChunks times chunk_limit.
MaxChunks == 3

\* The multiples of chunk_limit and their neighbours.
Sizes ==
    {m * chunk_limit + d : m \in 0..MaxChunks, d \in {-1, 0, 1}} \cap Nat

\* upload_chunk_size, lines 395-405.
upload_chunk_size(size, default) ==
    IF size >= chunk_limit
    THEN IF default % chunk_limit = 0
         THEN default
         ELSE default - (default % chunk_limit)
    ELSE default

\* Line 426: chunk_size = self.upload_chunk_size(src)
UploadChunkSize ==
    /\ cpc = "ready"
    /\ chunk_size' = upload_chunk_size(file_size, default_chunk_size)
    /\ cpc' = "done"
    /\ UNCHANGED <<backup_target, valVars, jobVars, upVars, drvVars, ctorVars,
                   file_size, default_chunk_size>>

ChunkInit ==
    /\ ValIdle
    /\ JobIdle
    /\ UpIdle
    /\ DrvIdle
    /\ CtorIdle
    /\ backup_target = None
    /\ file_size \in Sizes
    /\ default_chunk_size \in (Sizes \ {0}) \cup {DEFAULT_CHUNK_SIZE}
    /\ cpc = "ready"
    /\ chunk_size = 0

ChunkNext == UploadChunkSize

SpecChunk == ChunkInit /\ [][ChunkNext]_vars

-----------------------------------------------------------------------------
(* Properties of the constructors and of backup_command *)

\* The source does not exist, or an exclude file is given that does not.
PreconditionBroken ==
    \/ ~exists(source)
    \/ exclude_file # None /\ ~exists(exclude_file)

\* C27: when the source or a given exclude file does not exist, no job is
\* constructed, and nothing was done before the constructor raised: no
\* file renamed or deleted, no external command started, no worker thread
\* started, no remote folder created.
C27_NothingBeforePreconditionFailure ==
    PreconditionBroken =>
        /\ kpc \notin {"constructed", "command"}
        /\ kpc = "raised" => kresult # NoExc
        /\ disk = disk0
        /\ invoked = 0
        /\ threads = 0
        /\ folders = 0

\* The Google Drive job is refused for its missing exclude file; the
\* base folder was not there.
C27_Witness ==
    /\ kpc = "raised"
    /\ backup_type = "gdrive"
    /\ exists(source)
    /\ exclude_file # None /\ ~exists(exclude_file)
    /\ ~base_dir0
    /\ kresult = IOErrorENOENT

\* C29: the rsync command is rsync -a -A -X, then -v -P or -q, then -n
\* iff dry_run, then --exclude-from=F iff an exclude file is set, then one
\* of -u and --delete-after, then the extra arguments, then the source and
\* the target, each ending with a slash.
C29_RsyncCommandSequence ==
    (kpc = "command" /\ backup_type = "rsync") =>
        LET n == Len(command)
            v == IF verbose THEN 2 ELSE 1
            d == IF dry_run THEN 1 ELSE 0
            x == IF exclude_file # None THEN 1 ELSE 0
            e == Len(extra_args.items)
        IN  /\ n = 7 + v + d + x + e
            /\ SubSeq(command, 1, 4) = <<Msg("rsync"), Msg("-a"), Msg("-A"), Msg("-X")>>
            /\ SubSeq(command, 5, 4 + v) =
                   IF verbose THEN <<Msg("-v"), Msg("-P")>> ELSE <<Msg("-q")>>
            /\ dry_run => command[5 + v] = Msg("-n")
            /\ (\E i \in 1..n : command[i] = Msg("-n")) <=> dry_run
            /\ exclude_file # None =>
                   command[5 + v + d] = <<"--exclude-from=">> \o exclude_file
            /\ (\E i \in 1..n : command[i][1] = "--exclude-from=") <=> exclude_file # None
            /\ command[5 + v + d + x] =
                   IF incremental THEN Msg("-u") ELSE Msg("--delete-after")
            /\ Cardinality({i \in 1..n : command[i] \in {Msg("-u"), Msg("--delete-after")}}) = 1
            /\ SubSeq(command, 6 + v + d + x, n - 2) = extra_args.items
            /\ command[n - 1] \in {source, Append(source, "/")}
            /\ EndsWithSlash(command[n - 1])
            /\ command[n] = backup_target
            /\ EndsWithSlash(command[n])

\* A verbose incremental dry run with an exclude file and two extra
\* arguments.
C29_Witness ==
    /\ kpc = "command"
    /\ backup_type = "rsync"
    /\ verbose /\ dry_run /\ incremental
    /\ exclude_file # None
    /\ Len(extra_args.items) = 2
    /\ ~EndsWithSlash(source)
    /\ Len(command) = 13

\* C30: the tar command holds --exclude=<target>; holds exactly one of the
\* compression flag (--gzip unless another algorithm is given) and
\* --verify, the former with compression on and the latter with it off;
\* and ends with the extra arguments, --file=<target> and the source.
C30_TarCommandShape ==
    (kpc = "command" /\ backup_type = "tar") =>
        LET n == Len(command)
            e == Len(extra_args.items)
            algorithm == IF compression_type = Absent THEN Msg("gzip")
                         ELSE compression_type
            flags == {i \in 1..n : command[i] \in {<<"--">> \o algorithm, Msg("--verify")}}
        IN  /\ \E i \in 1..n : command[i] = <<"--exclude=">> \o backup_target
            /\ Cardinality(flags) = 1
            /\ \A i \in flags :
                   command[i] = IF compress THEN <<"--">> \o algorithm ELSE Msg("--verify")
            /\ command[n] \in {source, Append(source, "/")}
            /\ command[n - 1] = <<"--file=">> \o backup_target
            /\ SubSeq(command, n - 1 - e, n - 2) = extra_args.items
            /\ \A i \in flags : i < n - 1 - e

\* A tar job with the default algorithm and two extra arguments.
C30_Witness ==
    /\ kpc = "command"
    /\ backup_type = "tar"
    /\ compress
    /\ compression_type = Absent
    /\ Len(extra_args.items) = 2
    /\ \E i \in 1..Len(command) : command[i] = <<"--", "gzip">>

-----------------------------------------------------------------------------
(* More properties of the upload pipeline *)

\* C21: the queue never holds more than maxsize entries (the worker count
\* times the queue factor), and put_nowait never meets a full queue.
C21_QueueNeverFull ==
    /\ Len(queue) <= maxsize
    /\ ppc # "raised"

\* The producer has filled the queue up to its threshold and waits.
C21_Witness ==
    /\ ppc = "join_mid"
    /\ num_workers = 2
    /\ Len(queue) + num_workers = maxsize

-----------------------------------------------------------------------------
(* More properties of validate_backup_target *)

\* The path and the directories above it, up to the root: os.path.split
\* applied until the head no longer changes.
RECURSIVE Ancestors(_)
Ancestors(p) ==
    LET head == PathSplit(p)[1]
    IN  IF head = p THEN {p} ELSE {p} \cup Ancestors(head)

\* Neither the path nor a directory above it is found in a line of the
\* mount table.
Unlisted(p) == \A q \in Ancestors(p) : ~Found(q)

\* C22: for a path such that neither it nor any of its ancestors matches a
\* line of the mount table, validation never raises ENXIO, the filesystem
\* root included.
C22_UnlistedNeverENXIO ==
    (ValDone /\ Unlisted(backup_target)) => ~RaisedInvalid(ENXIO)

\* C23: with file_required, validation fails with EISDIR whenever the
\* target is an existing directory, whatever the mount table holds and
\* whatever is mounted.
C23_DirectoryRaisesEISDIR ==
    (ValDone /\ file_required /\ isdir(backup_target)) => RaisedInvalid(EISDIR)

\* A directory that a line of the mount table names and that is mounted is
\* refused as a file target.
C23_Witness ==
    /\ vpc = "raised"
    /\ file_required
    /\ isdir(backup_target)
    /\ Found(RStrip(backup_target))
    /\ ismount(backup_target)
    /\ Resolve(backup_target) # {Root}
    /\ RaisedInvalid(EISDIR)

\* C24: a returned path that is a directory ends with exactly one
\* separator, however many the input ended with.
C24_ExactlyOneTrailingSeparator ==
    (vpc = "returned" /\ isdir(vresult.value)) =>
        /\ EndsWithSlash(vresult.value)
        /\ \/ Len(vresult.value) = 1
           \/ vresult.value[Len(vresult.value) - 1] # "/"

\* The backup-strategy tags.
BackupTypes == {Msg("rsync"), Msg("tar")}

\* C25: every failure of the validation is an InvalidBackupTarget that
\* carries the target path, an error code and the backup-strategy tag.
C25_FailureCarriesPathCodeTag ==
    vpc = "raised" =>
        /\ vresult.exc.cls = "InvalidBackupTarget"
        /\ vresult.exc.args0 \in {ENXIO, ENOTDIR, EISDIR}
        /\ vresult.exc.backup_target = backup_target
        /\ vresult.exc.backup_type \in BackupTypes

-----------------------------------------------------------------------------
(* More properties of ShellBackupJob.backup *)

\* C26: when the deletion of the old backup fails during cleanup, backup()
\* still returns the exit code if the file was gone already (ENOENT), and
\* raises the error for any other cause.
C26_CleanupSwallowsOnlyENOENT ==
    (BackupEnded /\ remove_errno \notin {-1, 0}) =>
        IF remove_errno = ENOENT
        THEN bresult = [kind |-> "return", value |-> job_retval]
        ELSE /\ bresult.kind = "raise"
             /\ bresult.exc.errno = remove_errno

\* The old backup was gone when cleanup came to delete it, and backup()
\* returned the exit code.
C26_Witness ==
    /\ bpc = "returned"
    /\ remove_errno = ENOENT
    /\ old_backup # None
    /\ bresult = [kind |-> "return", value |-> 0]

\* The options that make rsync or tar simulate.
DryRunFlags == {Msg("-n"), Msg("--dry-run")}

\* C28: with dry_run set the backup is simulated: the external command is
\* given a dry-run flag and the files at the target stay as they were.
C28_DryRunSimulates ==
    dry_run =>
        /\ disk = disk0
        /\ command # <<>> => \E i \in 1..Len(command) : command[i] \in DryRunFlags

\* C34: after a successful run with overwrite enabled and a target that
\* existed, the target holds the new backup, whatever the file is called:
\* the cleanup never deletes the backup just written.
C34_NewBackupSurvivesCleanup ==
    (bpc = "returned" /\ Overwriting)
        => /\ backup_target \in DOMAIN disk
           /\ disk[backup_target] = "new"

-----------------------------------------------------------------------------
(* Properties of main() *)

\* C31: the exit status of the process is the exit code of the external
\* command when the command ran, the error number of the failure when a
\* precondition of the run failed (an existing target without overwrite:
\* EEXIST), and 1 when the run was interrupted.
C31_ExitStatusMirrorsError ==
    mpc = "exited" =>
        /\ (exit_code # -1 /\ remove_errno \in {-1, 0, ENOENT}) => exit_status = exit_code
        /\ (DiskIsFile(disk0, backup_target) /\ ~overwrite) => exit_status = EEXIST
        /\ (bresult.kind = "raise" /\ bresult.exc.cls = "KeyboardInterrupt")
              => exit_status = 1

\* C35: when the queue length plus the worker count has reached the
\* capacity at the check after an enqueue, the producer waits: it enqueues
\* nothing, and goes on only when every task enqueued so far has been
\* acknowledged and the queue is empty.
C35_Backpressure ==
    [][/\ (ppc = "check" /\ ppc' # "check" /\ Len(queue) + num_workers >= maxsize)
            => ppc' = "join_mid"
       /\ ppc = "join_mid" => (tree' = tree /\ Len(queue') <= Len(queue))
       /\ (ppc = "join_mid" /\ ppc' # "join_mid")
            => (unfinished = 0 /\ queue = <<>> /\ ppc' = "walk")]_vars

\* The producer waits, and the last task it enqueued has just been
\* acknowledged.
C35_Witness ==
    /\ ppc = "join_mid"
    /\ unfinished = 0
    /\ queue = <<>>
    /\ \E i \in 1..Len(tree) : outcome[i] \in {"uploaded", "uptodate"}
    /\ \A w \in Workers : wpc[w] = "get"

-----------------------------------------------------------------------------
(* Termination of the upload pipeline *)

\* C32: backup() ends in every execution, also when an upload raises in a
\* worker: the threads never all come to a stop with backup() still
\* waiting.
C32_BackupAlwaysEnds ==
    UpStopped => ppc \in {"returned", "raised"}

\* C33: when no upload raises, backup() returns under fair scheduling, for
\* every worker count, every number of files and every interleaving.
C33_TerminatesWithoutErrors ==
    <>(ppc = "returned" \/ SomeUploadFailed)

\* backup() has returned with one worker and more files than the queue
\* holds, each of them processed.
C33_Witness ==
    /\ ppc = "returned"
    /\ num_workers = 1
    /\ Len(tree) > maxsize
    /\ \A i \in 1..Len(tree) : outcome[i] \in {"uploaded", "uptodate"}

-----------------------------------------------------------------------------
(* More properties of should_update_file *)

\* C36: the result of should_update_file does not depend on how the
\* listing is split into pages: it is true when no page holds an entry of
\* the exact name that is not trashed, and otherwise it is decided by the
\* first such entry over all the pages, the first page of a listing of
\* several pages included.
C36_DecisionIndependentOfPaging ==
    (lpc = "done" /\ lres.fn = "should_update_file")
        => /\ lres.value = UpdateNeeded(lentries, lname, lmtime)
           /\ \A size \in 1..MaxPageSize :
                 lres.value = should_update_file(Pages(lentries, size),
                                                 lname, lmtime)

-----------------------------------------------------------------------------
(* Termination of validate_backup_target *)

\* The length of the path a frame works on: before its first frame has
\* set cur_dir, one more than the length of the target.
WalkLen == IF cur_dir = None THEN Len(backup_target) + 1 ELSE Len(cur_dir)

\* A measure of what is left of a call: the frames that still have to
\* return and, while the walk goes up the path, the length of the path.
WalkRank ==
    IF vpc = "enter" THEN 4 * WalkLen + 2 * depth + 4
    ELSE IF vpc = "search" THEN 4 * WalkLen + 2 * depth + 3
    ELSE IF vpc = "final" THEN 2 * depth + 2
    ELSE IF vpc = "return" THEN 2 * depth + 1
    ELSE 0

\* C37: the upward walk of validate_backup_target terminates for every
\* path and every mount table, the empty one included: every recursive
\* call strictly shortens the current path, a recursive call is made only
\* when no line of the mount table matched and the last component of the
\* path is not empty, and the call comes to its end: every step lowers a
\* measure that stays a natural number, and a call that has not ended is
\* at one of the four steps of a frame, each of which can be taken
\* whatever the path and the mount table are.
C37_WalkTerminates ==
    /\ [][(vpc = "search" /\ vpc' = "enter")
            => /\ Len(cur_dir') < Len(cur_dir)
               /\ ~Found(cur_dir)
               /\ PathSplit(cur_dir)[2] # <<>>]_vars
    /\ [][(vpc = "search" /\ (Found(cur_dir) \/ PathSplit(cur_dir)[2] = <<>>))
            => (vpc' # "enter" /\ depth' <= depth)]_vars
    /\ [][/\ WalkRank' < WalkRank
           /\ WalkRank' \in Nat
           /\ (ValDone' \/ vpc' \in {"enter", "search", "final", "return"})]_vars

\* The call has ended after a walk over an empty mount table from the
\* target up to the empty path.
C37_Witness ==
    /\ ValDone
    /\ fstab = {}
    /\ Len(visited) >= 3
    /\ visited[Len(visited)] = <<>>

-----------------------------------------------------------------------------
(* The search of the mount table *)

\* s occurs in line, character for character.
Occurs(s, line) ==
    \E i \in 0..(Len(line) - Len(s)) : SubSeq(line, i + 1, i + Len(s)) = s

\* C38: a candidate of the walk counts as found exactly when it occurs as
\* a substring of some raw line of the mount table, in whatever field; the
\* mount-status check is applied only to the deepest candidate found, and
\* no ancestor of it is looked up or checked after the match.
C38_FoundIffSubstringDeepestChecked ==
    /\ \A i \in 1..Len(visited) :
          (\E k \in 1..Len(checked) : checked[k] = visited[i])
              <=> (\E line \in fstab : Occurs(visited[i], line))
    /\ Len(checked) <= 1
    /\ checked # <<>> => checked[1] = visited[Len(visited)]

-----------------------------------------------------------------------------
(* Properties of upload_chunk_size *)

\* C39: for a file of at least 256 KiB and a positive default_chunk_size,
\* upload_chunk_size returns a positive multiple of 256 KiB that is not
\* larger than default_chunk_size.
C39_ChunkSizePositiveMultiple ==
    (cpc = "done" /\ file_size >= 256 * 1024 /\ default_chunk_size > 0)
        => /\ chunk_size > 0
           /\ chunk_size % (256 * 1024) = 0
           /\ chunk_size <= default_chunk_size

====
